---- MODULE Spec2Model ----
(***************************************************************************)
(* A model of the semantic core of the Pie interpreter.                    *)
(*                                                                         *)
(* src/src/pie_interpreter/types/value.ts  the Value classes, Box, Delay,  *)
(*                                         DelayClosure and readBackType   *)
(* src/unnamed/part_001                    the jest tests of rep and the   *)
(*                                         Parser over the Scheme AST      *)
(*                                                                         *)
(* The evaluator (valOf), read-back of values (readBack), convert, the     *)
(* bidirectional checker, contexts (bindFree, fresh) and environments are  *)
(* imported by value.ts but their files are not part of the sources; they  *)
(* are modelled from the specification.                                    *)
(*                                                                         *)
(* Objects with identity (Box) live in the variable heap; a Box is named   *)
(* by its index.  Every operation that may force a Delay takes the heap    *)
(* and returns the heap it leaves together with its result: [h, r].        *)
(***************************************************************************)
EXTENDS Integers, Sequences, FiniteSets, TLC

VARIABLES
  heap,      \* Seq of Box objects (content plus history fields)
  delays,    \* Seq of Delay objects, each [tag, val] with val a Box index
  hist,      \* history, per Delay object: the object it aliases, its now() calls
  last,      \* history: the call made by the last step and what it returned
  thr,       \* the two interleaved forcings of the racing specification
  inp,       \* the input an operation of the checker or read-back is applied to
  freshCalls \* history: how many fresh names were generated so far

vars == <<heap, delays, hist, last, thr, inp, freshCalls>>

----------------------------------------------------------------------------
(* The field names of the model's records, each with its rank.  TLC keeps  *)
(* the fields of a record in the order in which their names first occur in *)
(* the module; a record written in another order is rearranged in place    *)
(* when it is first compared or fingerprinted, and that is not safe when   *)
(* the two workers meet on the same record.  The names first occur here,   *)
(* in the order in which the constructors below write them, so that every  *)
(* record is built in its final order and is never rearranged.             *)

FieldOrder ==
  [h |-> 1, r |-> 2, tag |-> 3, msg |-> 4, smaller |-> 5, argName |-> 6,
   argType |-> 7, resultType |-> 8, carName |-> 9, carType |-> 10,
   cdrType |-> 11, car |-> 12, cdr |-> 13, val |-> 14, entryType |-> 15,
   leftType |-> 16, rightType |-> 17, fun |-> 18, n |-> 19, param |-> 20,
   pair |-> 21, length |-> 22, content |-> 23, undelays |-> 24,
   sets |-> 25, same |-> 26, k |-> 27, elements |-> 28, arg1 |-> 29,
   arg2 |-> 30, binders |-> 31, func |-> 32, pc |-> 33, op |-> 34,
   env |-> 35, group |-> 36, called |-> 37, d |-> 38, arg |-> 39,
   args |-> 40, boxContent |-> 41, theValue |-> 42, ctx |-> 43,
   hint |-> 44, rel |-> 45, kind |-> 46, name |-> 47, target |-> 48,
   base |-> 49, step |-> 50, binder |-> 51, type |-> 52, neutral |-> 53,
   from |-> 54, to |-> 55, value |-> 56, left |-> 57, right |-> 58,
   lvl |-> 59, v |-> 60, vals |-> 61, w |-> 62, b |-> 63, prog |-> 64,
   e |-> 65, free |-> 66, T |-> 67, bare |-> 68, arity |-> 69, pi |-> 70,
   word |-> 71, pairs |-> 72, body |-> 73, src |-> 74, head |-> 75,
   tail |-> 76, num |-> 77, at |-> 78, parsed |-> 79, expected |-> 80,
   first |-> 81, agree |-> 82, second |-> 83, err |-> 84, ret |-> 85,
   expr |-> 86, ran |-> 87, again |-> 88, aliasRets |-> 89, moved |-> 90,
   before |-> 91, after |-> 92, earlier |-> 93, later |-> 94, seen |-> 95]

----------------------------------------------------------------------------
(* Bounds of the model. *)

MaxBoxes == 2
MaxDelays == 3
MaxCtx == 2
MaxCalls == 2

----------------------------------------------------------------------------
(* Names.  A name is <<base, n>>: n = 0 is the plain name, n > 0 the name  *)
(* with subscript n (x, x₁, x₂, ...).                                       *)

Nm(base) == <<base, 0>>
Sub(base, n) == <<base, n>>

----------------------------------------------------------------------------
(* Values (value.ts): one record shape per class. *)

Ret(h, r) == [h |-> h, r |-> r]

Throw(msg) == [tag |-> "Throw", msg |-> msg]
IsThrow(r) == r.tag = "Throw"

VZero == [tag |-> "Zero"]
VAdd1(smaller) == [tag |-> "Add1", smaller |-> smaller]
VQuote(name) == [tag |-> "Quote", name |-> name]
VNat == [tag |-> "Nat"]
VAtom == [tag |-> "Atom"]
VUniverse == [tag |-> "Universe"]
VTrivial == [tag |-> "Trivial"]
VSole == [tag |-> "Sole"]
VAbsurd == [tag |-> "Absurd"]
VPi(argName, argType, resultType) ==
  [tag |-> "Pi", argName |-> argName, argType |-> argType, resultType |-> resultType]
VSigma(carName, carType, cdrType) ==
  [tag |-> "Sigma", carName |-> carName, carType |-> carType, cdrType |-> cdrType]
VLambda(argName, body) == [tag |-> "Lambda", argName |-> argName, body |-> body]
VCons(car, cdr) == [tag |-> "Cons", car |-> car, cdr |-> cdr]
VNeutral(type, neutral) == [tag |-> "Neutral", type |-> type, neutral |-> neutral]
VDelay(val) == [tag |-> "Delay", val |-> val]
VList(entryType) == [tag |-> "List", entryType |-> entryType]
VEqual(type, from, to) == [tag |-> "Equal", type |-> type, from |-> from, to |-> to]
VSame(value) == [tag |-> "Same", value |-> value]
VEither(leftType, rightType) ==
  [tag |-> "Either", leftType |-> leftType, rightType |-> rightType]
VListCons(head, tail) == [tag |-> "ListCons", head |-> head, tail |-> tail]
VNil == [tag |-> "Nil"]
VVecCons(head, tail) == [tag |-> "VecCons", head |-> head, tail |-> tail]
VVecNil == [tag |-> "VecNil"]
VLeft(value) == [tag |-> "Left", value |-> value]
VRight(value) == [tag |-> "Right", value |-> value]

DelayClosure(env, expr) == [tag |-> "DelayClosure", env |-> env, expr |-> expr]

(* Closure (types/utils): an environment, the bound name and the body. *)
Closure(env, name, expr) == [env |-> env, name |-> name, expr |-> expr]

(* Neutral spines (types/neutral). *)
NVariable(name) == [tag |-> "N.Variable", name |-> name]
NApplication(fun, arg) == [tag |-> "N.Application", fun |-> fun, arg |-> arg]
NWhichNat(target, base, step) ==
  [tag |-> "N.WhichNat", target |-> target, base |-> base, step |-> step]
NCar(target) == [tag |-> "N.Car", target |-> target]
NCdr(target) == [tag |-> "N.Cdr", target |-> target]
Norm(type, value) == [type |-> type, value |-> value]

----------------------------------------------------------------------------
(* Core expressions (types/core). *)

CVar(name) == [tag |-> "C.Var", name |-> name]
CZero == [tag |-> "C.Zero"]
CAdd1(n) == [tag |-> "C.Add1", n |-> n]
CNat == [tag |-> "C.Nat"]
CAtom == [tag |-> "C.Atom"]
CUniverse == [tag |-> "C.Universe"]
CTrivial == [tag |-> "C.Trivial"]
CSole == [tag |-> "C.Sole"]
CAbsurd == [tag |-> "C.Absurd"]
CQuote(name) == [tag |-> "C.Quote", name |-> name]
CPi(name, type, body) == [tag |-> "C.Pi", name |-> name, type |-> type, body |-> body]
CSigma(name, type, body) ==
  [tag |-> "C.Sigma", name |-> name, type |-> type, body |-> body]
CLambda(param, body) == [tag |-> "C.Lambda", param |-> param, body |-> body]
CApplication(fun, arg) == [tag |-> "C.Application", fun |-> fun, arg |-> arg]
CThe(type, expr) == [tag |-> "C.The", type |-> type, expr |-> expr]
CCons(car, cdr) == [tag |-> "C.Cons", car |-> car, cdr |-> cdr]
CCar(pair) == [tag |-> "C.Car", pair |-> pair]
CCdr(pair) == [tag |-> "C.Cdr", pair |-> pair]
CWhichNat(target, base, step) ==
  [tag |-> "C.WhichNat", target |-> target, base |-> base, step |-> step]
CList(entryType) == [tag |-> "C.List", entryType |-> entryType]
CEither(left, right) == [tag |-> "C.Either", left |-> left, right |-> right]
CVec(entryType, length) == [tag |-> "C.Vec", entryType |-> entryType, length |-> length]
CEqual(type, from, to) == [tag |-> "C.Equal", type |-> type, from |-> from, to |-> to]
CSame(expr) == [tag |-> "C.Same", expr |-> expr]

----------------------------------------------------------------------------
(* Environments: a list of bindings, the most recent first. *)

EmptyEnv == <<>>

extendEnv(env, name, value) == <<[name |-> name, value |-> value]>> \o env

RECURSIVE lookupEnv(_, _)
lookupEnv(env, name) ==
  IF env = <<>> THEN Throw("unbound")
  ELSE IF Head(env).name = name THEN Head(env).value
  ELSE lookupEnv(Tail(env), name)

----------------------------------------------------------------------------
(* Box (value.ts 69-82).  content is the field of the class; the other     *)
(* fields are history: how often undelay ran for the cell, how often set   *)
(* was called on it, what the first now() on it returned, and whether      *)
(* every now() on it returned that.                                        *)

NoValue == [tag |-> "NoValue"]

NewBox(value) ==
  [content |-> value, undelays |-> 0, sets |-> 0, first |-> NoValue, agree |-> TRUE]

BoxGet(h, b) == h[b].content

(* mutant: set counts the call and stores nothing *)
BoxSet_Lost(h, b, value) == [h EXCEPT ![b].sets = @ + 1]

BoxSet(h, b, value) ==
  [h EXCEPT ![b].content = value, ![b].sets = @ + 1]

(* history only: undelay is about to run for box b *)
NoteUndelay(h, b) == [h EXCEPT ![b].undelays = @ + 1]

(* history only: a now() on box b returned ret *)
NoteNow(h, b, ret) ==
  IF h[b].first = NoValue THEN [h EXCEPT ![b].first = ret]
  ELSE [h EXCEPT ![b].agree = @ /\ (ret = h[b].first)]

----------------------------------------------------------------------------
(* The evaluator and forcing. *)

(* The operations below call one another recursively.  Every such call is  *)
(* written f_(...) and goes through Rec, the one recursive operator, which *)
(* dispatches on the name of the operation called.                         *)
RECURSIVE Rec(_, _)

now_(h, v) == Rec("now", <<h, v>>)
valOf_(h, env, e) == Rec("valOf", <<h, env, e>>)
valOfClosure_(h, clo, v) == Rec("valOfClosure", <<h, clo, v>>)
doAp_(h, rator, rand) == Rec("doAp", <<h, rator, rand>>)
doCar_(h, pair) == Rec("doCar", <<h, pair>>)
readBackType_(h, ctx, v) == Rec("readBackType", <<h, ctx, v>>)
readBack_(h, ctx, type, v) == Rec("readBack", <<h, ctx, type, v>>)
readBackNeutral_(h, ctx, ne) == Rec("readBackNeutral", <<h, ctx, ne>>)

(* Sequencing: a is the outcome [h, r] of a call; when the call threw, the *)
(* exception is the outcome of the caller, else the caller goes on with    *)
(* the heap the call left and the value it returned.                       *)
Then(a, K(_, _)) == IF IsThrow(a.r) THEN a ELSE K(a.h, a.r)

(* Value.now (value.ts 43-45): a value that is no Delay is its own value. *)
ValueNow(h, v) == Ret(h, v)

(* mutant: the expression is evaluated in the environment in force where *)
(* it is forced                                                           *)
undelay_Dynamic(h, clo) ==
  Then(valOf_(h, inp, clo.expr), LAMBDA h1, v : now_(h1, v))

(* DelayClosure.undelay (value.ts 63-65) *)
undelay(h, clo) ==
  Then(valOf_(h, clo.env, clo.expr), LAMBDA h1, v : now_(h1, v))

(* Delay.now (value.ts 89-98), statement by statement.                     *)
(* NowRead: const boxContent = this.val.get()                              *)
NowRead(h, d) == BoxGet(h, d.val)

(* NowCompute: let theValue = boxContent.undelay()                         *)
NowCompute(h, d, boxContent) == undelay(NoteUndelay(h, d.val), boxContent)

(* mutant: the result is returned and never stored *)
NowWrite_NoSet(h, d, theValue) == Ret(NoteNow(h, d.val, theValue), theValue)

(* NowWrite: this.val.set(theValue); return theValue                       *)
NowWrite(h, d, theValue) ==
  Ret(NoteNow(BoxSet(h, d.val, theValue), d.val, theValue), theValue)

(* mutant: a forced Delay answers like Value.now, return this *)
NowForced_ReturnThis(h, d, boxContent) == Ret(NoteNow(h, d.val, d), d)

(* NowForced: the else branch, return boxContent as Value                  *)
NowForced(h, d, boxContent) == Ret(NoteNow(h, d.val, boxContent), boxContent)

DelayNow(h, d) ==
  LET boxContent == NowRead(h, d)
  IN  IF boxContent.tag = "DelayClosure"
      THEN Then(NowCompute(h, d, boxContent),
                LAMBDA h1, theValue : NowWrite(h1, d, theValue))
      ELSE NowForced(h, d, boxContent)

(* v.now(): dispatch on the class of v *)
now(h, v) == IF v.tag = "Delay" THEN DelayNow(h, v) ELSE ValueNow(h, v)

valOfClosure(h, clo, v) == valOf_(h, extendEnv(clo.env, clo.name, v), clo.expr)

doAp(h, rator, rand) ==
  Then(now_(h, rator), LAMBDA h1, f :
    CASE f.tag = "Lambda" -> valOfClosure_(h1, f.body, rand)
      [] f.tag = "Neutral" ->
           Then(now_(h1, f.type), LAMBDA h2, t :
             IF t.tag = "Pi"
             THEN Then(valOfClosure_(h2, t.resultType, rand), LAMBDA h3, rt :
                    Ret(h3, VNeutral(rt, NApplication(f.neutral, Norm(t.argType, rand)))))
             ELSE Ret(h2, Throw("doAp: not a function type")))
      [] OTHER -> Ret(h1, Throw("doAp: not a function")))

(* the type of the step of which-Nat: (Pi ((n Nat)) baseType) *)
WhichNatStepType(baseType) ==
  VPi(Nm("n"), VNat,
      Closure(extendEnv(EmptyEnv, Nm("ty"), baseType), Nm("n"), CVar(Nm("ty"))))

(* mutant: the step is applied to the target, not to its predecessor *)
doWhichNat_OnTarget(h, target, baseType, base, step) ==
  Then(now_(h, target), LAMBDA h1, t :
    CASE t.tag = "Zero" -> Ret(h1, base)
      [] t.tag = "Add1" -> doAp_(h1, step, t)
      [] OTHER -> Ret(h1, Throw("doWhichNat: not a Nat")))

(* doWhichNat(target, baseType, base, step) *)
doWhichNat(h, target, baseType, base, step) ==
  Then(now_(h, target), LAMBDA h1, t :
    CASE t.tag = "Zero" -> Ret(h1, base)
      [] t.tag = "Add1" -> doAp_(h1, step, t.smaller)
      [] t.tag = "Neutral" ->
           Ret(h1, VNeutral(baseType,
                 NWhichNat(t.neutral, Norm(baseType, base),
                           Norm(WhichNatStepType(baseType), step))))
      [] OTHER -> Ret(h1, Throw("doWhichNat: not a Nat")))

doCar(h, pair) ==
  Then(now_(h, pair), LAMBDA h1, p :
    CASE p.tag = "Cons" -> Ret(h1, p.car)
      [] p.tag = "Neutral" ->
           Then(now_(h1, p.type), LAMBDA h2, t :
             IF t.tag = "Sigma"
             THEN Ret(h2, VNeutral(t.carType, NCar(p.neutral)))
             ELSE Ret(h2, Throw("doCar: not a pair type")))
      [] OTHER -> Ret(h1, Throw("doCar: not a pair")))

doCdr(h, pair) ==
  Then(now_(h, pair), LAMBDA h1, p :
    CASE p.tag = "Cons" -> Ret(h1, p.cdr)
      [] p.tag = "Neutral" ->
           Then(now_(h1, p.type), LAMBDA h2, t :
             IF t.tag = "Sigma"
             THEN Then(doCar_(h2, pair), LAMBDA h3, a :
                  Then(valOfClosure_(h3, t.cdrType, a), LAMBDA h4, ct :
                    Ret(h4, VNeutral(ct, NCdr(p.neutral)))))
             ELSE Ret(h2, Throw("doCdr: not a pair type")))
      [] OTHER -> Ret(h1, Throw("doCdr: not a pair")))

(* valOf(environment, coreExpr) *)
valOf(h, env, e) ==
  CASE e.tag = "C.Var" -> Ret(h, lookupEnv(env, e.name))
    [] e.tag = "C.Zero" -> Ret(h, VZero)
    [] e.tag = "C.Nat" -> Ret(h, VNat)
    [] e.tag = "C.Atom" -> Ret(h, VAtom)
    [] e.tag = "C.Universe" -> Ret(h, VUniverse)
    [] e.tag = "C.Trivial" -> Ret(h, VTrivial)
    [] e.tag = "C.Sole" -> Ret(h, VSole)
    [] e.tag = "C.Absurd" -> Ret(h, VAbsurd)
    [] e.tag = "C.Quote" -> Ret(h, VQuote(e.name))
    [] e.tag = "C.Add1" ->
         Then(valOf_(h, env, e.n), LAMBDA h1, n : Ret(h1, VAdd1(n)))
    [] e.tag = "C.Lambda" -> Ret(h, VLambda(e.param, Closure(env, e.param, e.body)))
    [] e.tag = "C.Pi" ->
         Then(valOf_(h, env, e.type), LAMBDA h1, A :
           Ret(h1, VPi(e.name, A, Closure(env, e.name, e.body))))
    [] e.tag = "C.Sigma" ->
         Then(valOf_(h, env, e.type), LAMBDA h1, A :
           Ret(h1, VSigma(e.name, A, Closure(env, e.name, e.body))))
    [] e.tag = "C.Application" ->
         Then(valOf_(h, env, e.fun), LAMBDA h1, f :
         Then(valOf_(h1, env, e.arg), LAMBDA h2, a :
           doAp_(h2, f, a)))
    [] e.tag = "C.The" -> valOf_(h, env, e.expr)
    [] e.tag = "C.Cons" ->
         Then(valOf_(h, env, e.car), LAMBDA h1, a :
         Then(valOf_(h1, env, e.cdr), LAMBDA h2, d :
           Ret(h2, VCons(a, d))))
    [] e.tag = "C.Car" ->
         Then(valOf_(h, env, e.pair), LAMBDA h1, p : doCar_(h1, p))
    [] e.tag = "C.Cdr" ->
         Then(valOf_(h, env, e.pair), LAMBDA h1, p : doCdr(h1, p))
    [] e.tag = "C.Equal" ->
         Then(valOf_(h, env, e.type), LAMBDA h1, A :
         Then(valOf_(h1, env, e.from), LAMBDA h2, f :
         Then(valOf_(h2, env, e.to), LAMBDA h3, t :
           Ret(h3, VEqual(A, f, t)))))
    [] e.tag = "C.Same" ->
         Then(valOf_(h, env, e.expr), LAMBDA h1, v : Ret(h1, VSame(v)))
    [] e.tag = "C.WhichNat" ->
         Then(valOf_(h, env, e.target), LAMBDA h1, t :
         Then(valOf_(h1, env, e.base.type), LAMBDA h2, bt :
         Then(valOf_(h2, env, e.base.expr), LAMBDA h3, b :
         Then(valOf_(h3, env, e.step), LAMBDA h4, s :
           doWhichNat(h4, t, bt, b, s)))))
    [] OTHER -> Ret(h, Throw("valOf: no rule"))

----------------------------------------------------------------------------
(* Contexts: a list of bindings, the most recent first.  A binding is      *)
(* Free(type) or Definition(type, value).                                  *)

EmptyCtx == <<>>

Free(name, type) == [name |-> name, binder |-> "Free", type |-> type]
Definition(name, type, value) ==
  [name |-> name, binder |-> "Definition", type |-> type, value |-> value]

Names(ctx) == { ctx[i].name : i \in DOMAIN ctx }

bindFree(ctx, name, type) == <<Free(name, type)>> \o ctx

(* the first of base_n, base_n+1, ... that is not used *)
RECURSIVE freshenAux(_, _, _)
freshenAux(used, base, n) ==
  IF Sub(base, n) \in used THEN freshenAux(used, base, n + 1) ELSE Sub(base, n)

freshen(used, name) ==
  IF name \in used
  THEN freshenAux(used, name[1], IF name[2] = 0 THEN 1 ELSE name[2])
  ELSE name

(* mutant: the hint is returned as it is *)
fresh_Hint(ctx, name) == name

(* fresh(context, hint) *)
fresh(ctx, name) == freshen(Names(ctx), name)

----------------------------------------------------------------------------
(* readBackType (value.ts), one definition per class. *)

(* Delay.readBackType (value.ts 100-102) *)
DelayReadBackType(h, ctx, v) ==
  Then(now_(h, v), LAMBDA h1, n : readBackType_(h1, ctx, n))

(* the classes whose readBackType throws (value.ts 108-110, 116-118,       *)
(* 149-151, 183-185, 194-196, 226-228, 251-253, 273-275, 281-283, 316-318, *)
(* 340-342, 348-350, 364-366)                                              *)
NoReadBackType ==
  { "Quote", "Add1", "Lambda", "Cons", "ListCons", "Same", "VecCons",
    "Left", "Right", "Zero", "Sole", "Nil", "VecNil" }

ThrowReadBackType(h, ctx, v) == Ret(h, Throw("No readBackType for " \o v.tag \o "."))

(* the binder node: Aexpr is the read-back argument type, freshedName the  *)
(* name chosen, and the body is the result type applied to the neutral     *)
(* variable freshedName, read back with freshedName bound                  *)
PiBinder(ctx, v, h1, Aexpr, freshedName) ==
  Then(valOfClosure_(h1, v.resultType, VNeutral(v.argType, NVariable(freshedName))),
       LAMBDA h2, rt :
  Then(readBackType_(h2, bindFree(ctx, freshedName, v.argType), rt),
       LAMBDA h3, B :
    Ret(h3, CPi(freshedName, Aexpr, B))))

(* mutant: the binder is named by the type's own argName *)
PiReadBackType_NoFresh(h, ctx, v) ==
  Then(readBackType_(h, ctx, v.argType), LAMBDA h1, Aexpr :
    PiBinder(ctx, v, h1, Aexpr, v.argName))

(* mutant: the binder is named from a counter of the names generated *)
PiReadBackType_Gensym(h, ctx, v) ==
  Then(readBackType_(h, ctx, v.argType), LAMBDA h1, Aexpr :
    PiBinder(ctx, v, h1, Aexpr, Sub("g", freshCalls)))

(* mutant: the argument type is read back where the binder is bound too *)
PiReadBackType_DomainInside(h, ctx, v) ==
  Then(readBackType_(h, bindFree(ctx, fresh(ctx, v.argName), v.argType), v.argType),
       LAMBDA h1, Aexpr :
    PiBinder(ctx, v, h1, Aexpr, fresh(ctx, v.argName)))

(* Pi.readBackType (value.ts 128-141) *)
PiReadBackType(h, ctx, v) ==
  Then(readBackType_(h, ctx, v.argType), LAMBDA h1, Aexpr :
    PiBinder(ctx, v, h1, Aexpr, fresh(ctx, v.argName)))

(* mutant: the binder is named by the type's own carName *)
SigmaReadBackType_NoFresh(h, ctx, v) ==
  Then(readBackType_(h, ctx, v.carType), LAMBDA h1, Aexpr :
    LET excludeNameCtx == bindFree(ctx, v.carName, v.carType)
    IN  Then(valOfClosure_(h1, v.cdrType, VNeutral(v.carType, NVariable(v.carName))),
             LAMBDA h2, rt :
        Then(readBackType_(h2, excludeNameCtx, rt), LAMBDA h3, D :
          Ret(h3, CSigma(v.carName, Aexpr, D)))))

(* Sigma.readBackType (value.ts 161-174) *)
SigmaReadBackType(h, ctx, v) ==
  Then(readBackType_(h, ctx, v.carType), LAMBDA h1, Aexpr :
    LET freshedName == fresh(ctx, v.carName)
        excludeNameCtx == bindFree(ctx, freshedName, v.carType)
    IN  Then(valOfClosure_(h1, v.cdrType, VNeutral(v.carType, NVariable(freshedName))),
             LAMBDA h2, rt :
        Then(readBackType_(h2, excludeNameCtx, rt), LAMBDA h3, D :
          Ret(h3, CSigma(freshedName, Aexpr, D)))))

(* List.readBackType (value.ts 202-204) *)
ListReadBackType(h, ctx, v) ==
  Then(readBackType_(h, ctx, v.entryType), LAMBDA h1, E : Ret(h1, CList(E)))

(* mutant: the two sides of the equality are exchanged *)
EqualReadBackType_Swapped(h, ctx, v) ==
  Then(readBackType_(h, ctx, v.type), LAMBDA h1, A :
  Then(readBack_(h1, ctx, v.type, v.from), LAMBDA h2, f :
  Then(readBack_(h2, ctx, v.type, v.to), LAMBDA h3, t :
    Ret(h3, CEqual(A, t, f)))))

(* Equal.readBackType (value.ts 214-220) *)
EqualReadBackType(h, ctx, v) ==
  Then(readBackType_(h, ctx, v.type), LAMBDA h1, A :
  Then(readBack_(h1, ctx, v.type, v.from), LAMBDA h2, f :
  Then(readBack_(h2, ctx, v.type, v.to), LAMBDA h3, t :
    Ret(h3, CEqual(A, f, t)))))

(* Vec.readBackType (value.ts 237-242) *)
VecReadBackType(h, ctx, v) ==
  Then(readBackType_(h, ctx, v.entryType), LAMBDA h1, E :
  Then(readBack_(h1, ctx, VNat, v.length), LAMBDA h2, l :
    Ret(h2, CVec(E, l))))

(* mutant: the right type is read back in the context as the read-back of *)
(* the left type would leave it, had it bound its name in place           *)
EitherReadBackType_Grown(h, ctx, v) ==
  Then(readBackType_(h, ctx, v.leftType), LAMBDA h1, L :
  Then(readBackType_(h1, IF L.tag \in {"C.Pi", "C.Sigma"}
                         THEN bindFree(ctx, L.name, VNat) ELSE ctx,
                     v.rightType), LAMBDA h2, R :
    Ret(h2, CEither(L, R))))

(* Either.readBackType (value.ts 262-267) *)
EitherReadBackType(h, ctx, v) ==
  Then(readBackType_(h, ctx, v.leftType), LAMBDA h1, L :
  Then(readBackType_(h1, ctx, v.rightType), LAMBDA h2, R :
    Ret(h2, CEither(L, R))))

(* Neutral.readBackType (value.ts 292-294) *)
NeutralReadBackType(h, ctx, v) == readBackNeutral_(h, ctx, v.neutral)

(* v.readBackType(context): dispatch on the class of v *)
readBackType(h, ctx, v) ==
  CASE v.tag = "Delay" -> DelayReadBackType(h, ctx, v)
    [] v.tag \in NoReadBackType -> ThrowReadBackType(h, ctx, v)
    [] v.tag = "Pi" -> PiReadBackType(h, ctx, v)
    [] v.tag = "Sigma" -> SigmaReadBackType(h, ctx, v)
    [] v.tag = "List" -> ListReadBackType(h, ctx, v)
    [] v.tag = "Equal" -> EqualReadBackType(h, ctx, v)
    [] v.tag = "Vec" -> VecReadBackType(h, ctx, v)
    [] v.tag = "Either" -> EitherReadBackType(h, ctx, v)
    [] v.tag = "Neutral" -> NeutralReadBackType(h, ctx, v)
    [] v.tag = "Universe" -> Ret(h, CUniverse)
    [] v.tag = "Nat" -> Ret(h, CNat)
    [] v.tag = "Atom" -> Ret(h, CAtom)
    [] v.tag = "Trivial" -> Ret(h, CTrivial)
    [] v.tag = "Absurd" -> Ret(h, CAbsurd)

----------------------------------------------------------------------------
(* Read-back of values and of neutral spines. *)

(* N.Neutral.readBackNeutral(context) *)
readBackNeutral(h, ctx, ne) ==
  CASE ne.tag = "N.Variable" -> Ret(h, CVar(ne.name))
    [] ne.tag = "N.Application" ->
         Then(readBackNeutral_(h, ctx, ne.fun), LAMBDA h1, f :
         Then(readBack_(h1, ctx, ne.arg.type, ne.arg.value), LAMBDA h2, a :
           Ret(h2, CApplication(f, a))))
    [] ne.tag = "N.Car" ->
         Then(readBackNeutral_(h, ctx, ne.target), LAMBDA h1, t : Ret(h1, CCar(t)))
    [] ne.tag = "N.Cdr" ->
         Then(readBackNeutral_(h, ctx, ne.target), LAMBDA h1, t : Ret(h1, CCdr(t)))
    [] ne.tag = "N.WhichNat" ->
         Then(readBackNeutral_(h, ctx, ne.target), LAMBDA h1, t :
         Then(readBackType_(h1, ctx, ne.base.type), LAMBDA h2, bt :
         Then(readBack_(h2, ctx, ne.base.type, ne.base.value), LAMBDA h3, b :
         Then(readBack_(h3, ctx, ne.step.type, ne.step.value), LAMBDA h4, s :
           Ret(h4, CWhichNat(t, CThe(bt, b), s))))))

(* read-back at a Pi type: a lambda over a fresh name; the name is taken   *)
(* from the value when it is a Lambda, else from the type                  *)
readBackPi(h, ctx, t, value) ==
  Then(now_(h, value), LAMBDA h1, vn :
    LET y == IF vn.tag = "Lambda" THEN vn.argName ELSE t.argName
        freshx == fresh(ctx, y)
        arg == VNeutral(t.argType, NVariable(freshx))
    IN  Then(valOfClosure_(h1, t.resultType, arg), LAMBDA h2, rt :
        Then(doAp_(h2, value, arg), LAMBDA h3, ap :
        Then(readBack_(h3, bindFree(ctx, freshx, t.argType), rt, ap), LAMBDA h4, b :
          Ret(h4, CLambda(freshx, b))))))

(* read-back at a Sigma type: cons of the two projections *)
readBackSigma(h, ctx, t, value) ==
  Then(doCar_(h, value), LAMBDA h1, a :
  Then(valOfClosure_(h1, t.cdrType, a), LAMBDA h2, ct :
  Then(doCdr(h2, value), LAMBDA h3, d :
  Then(readBack_(h3, ctx, t.carType, a), LAMBDA h4, ae :
  Then(readBack_(h4, ctx, ct, d), LAMBDA h5, de :
    Ret(h5, CCons(ae, de)))))))

(* read-back at the other types: by the form of the forced value *)
readBackByValue(h, ctx, t, value) ==
  Then(now_(h, value), LAMBDA h1, v :
    CASE v.tag = "Neutral" -> readBackNeutral_(h1, ctx, v.neutral)
      [] t.tag = "Nat" /\ v.tag = "Zero" -> Ret(h1, CZero)
      [] t.tag = "Nat" /\ v.tag = "Add1" ->
           Then(readBack_(h1, ctx, VNat, v.smaller), LAMBDA h2, n : Ret(h2, CAdd1(n)))
      [] t.tag = "Atom" /\ v.tag = "Quote" -> Ret(h1, CQuote(v.name))
      [] t.tag = "Equal" /\ v.tag = "Same" ->
           Then(readBack_(h1, ctx, t.type, v.value), LAMBDA h2, e : Ret(h2, CSame(e)))
      [] OTHER -> Ret(h1, Throw("readBack: no rule")))

(* readBack(context, type, value) *)
readBack(h, ctx, type, value) ==
  Then(now_(h, type), LAMBDA h1, t :
    CASE t.tag = "Pi" -> readBackPi(h1, ctx, t, value)
      [] t.tag = "Sigma" -> readBackSigma(h1, ctx, t, value)
      [] t.tag = "Trivial" -> Ret(h1, CSole)
      [] t.tag = "Absurd" ->
           Then(now_(h1, value), LAMBDA h2, vn :
           Then(readBackNeutral_(h2, ctx, vn.neutral), LAMBDA h3, ne :
             Ret(h3, CThe(CAbsurd, ne))))
      [] t.tag = "Universe" -> readBackType_(h1, ctx, value)
      [] OTHER -> readBackByValue(h1, ctx, t, value))

----------------------------------------------------------------------------
(* Alpha-equivalence of core expressions and convert. *)

(* the sub-expressions of a node that binds no name *)
Kids(e) ==
  CASE e.tag = "C.Add1" -> <<e.n>>
    [] e.tag = "C.Application" -> <<e.fun, e.arg>>
    [] e.tag = "C.The" -> <<e.type, e.expr>>
    [] e.tag = "C.Cons" -> <<e.car, e.cdr>>
    [] e.tag \in {"C.Car", "C.Cdr"} -> <<e.pair>>
    [] e.tag = "C.WhichNat" -> <<e.target, e.base, e.step>>
    [] e.tag = "C.List" -> <<e.entryType>>
    [] e.tag = "C.Either" -> <<e.left, e.right>>
    [] e.tag = "C.Vec" -> <<e.entryType, e.length>>
    [] e.tag = "C.Equal" -> <<e.type, e.from, e.to>>
    [] e.tag = "C.Same" -> <<e.expr>>
    [] OTHER -> <<>>

(* the binding depth of name in bs (the innermost binding first), 0 if free *)
RECURSIVE Depth(_, _)
Depth(bs, name) ==
  IF bs = <<>> THEN 0
  ELSE IF Head(bs).name = name THEN Head(bs).lvl
  ELSE Depth(Tail(bs), name)

Bound(bs, name, lvl) == <<[name |-> name, lvl |-> lvl]>> \o bs

(* mutant: a bound variable also matches any free variable *)
alphaVar_Loose(b1, b2, n1, n2) ==
  \/ Depth(b1, n1) = Depth(b2, n2) /\ (Depth(b1, n1) = 0 => n1 = n2)
  \/ Depth(b1, n1) # 0 /\ Depth(b2, n2) = 0

(* two variables: bound at the same depth, or free with the same name *)
alphaVar(b1, b2, n1, n2) ==
  Depth(b1, n1) = Depth(b2, n2) /\ (Depth(b1, n1) = 0 => n1 = n2)

RECURSIVE alphaAux(_, _, _, _, _)
alphaAux(lvl, b1, b2, e1, e2) ==
  /\ e1.tag = e2.tag
  /\ CASE e1.tag = "C.Var" -> alphaVar(b1, b2, e1.name, e2.name)
       [] e1.tag = "C.Quote" -> e1.name = e2.name
       [] e1.tag \in {"C.Pi", "C.Sigma"} ->
            /\ alphaAux(lvl, b1, b2, e1.type, e2.type)
            /\ alphaAux(lvl + 1, Bound(b1, e1.name, lvl), Bound(b2, e2.name, lvl),
                        e1.body, e2.body)
       [] e1.tag = "C.Lambda" ->
            alphaAux(lvl + 1, Bound(b1, e1.param, lvl), Bound(b2, e2.param, lvl),
                     e1.body, e2.body)
       [] e1.tag = "C.The" /\ e1.type.tag = "C.Absurd" /\ e2.type.tag = "C.Absurd" -> TRUE
       [] OTHER ->
            \A i \in DOMAIN Kids(e1) : alphaAux(lvl, b1, b2, Kids(e1)[i], Kids(e2)[i])

alphaEquiv(e1, e2) == alphaAux(1, <<>>, <<>>, e1, e2)

Answer(b) == [tag |-> "Answer", same |-> b]

(* convert(context, type, v1, v2) *)
convert(h, ctx, type, v1, v2) ==
  Then(readBack_(h, ctx, type, v1), LAMBDA h1, e1 :
  Then(readBack_(h1, ctx, type, v2), LAMBDA h2, e2 :
    Ret(h2, Answer(alphaEquiv(e1, e2)))))

----------------------------------------------------------------------------
(* The parser (part_001 288-701): from the elements of the Scheme reader   *)
(* to Source expressions.  An element is a Symbol, a NumericLiteral or a   *)
(* List of elements.                                                       *)

Symbol(value) == [k |-> "Symbol", value |-> value]
NumericLiteral(value) == [k |-> "NumericLiteral", value |-> value]
List(elements) == [k |-> "List", elements |-> elements]

(* what indexing past the end of an array gives *)
Undefined == [k |-> "undefined"]

(* elements[i] of a List, i counted from 0 *)
Elem(element, i) ==
  IF element.k = "List" /\ i < Len(element.elements)
  THEN element.elements[i + 1] ELSE Undefined

(* getValue (part_001 315-325) throws: the chain of first elements ends in *)
(* no element                                                              *)
RECURSIVE getValueThrows(_)
getValueThrows(element) ==
  CASE element.k \in {"Symbol", "NumericLiteral"} -> FALSE
    [] element.k = "List" -> getValueThrows(Elem(element, 0))
    [] OTHER -> TRUE

(* getValue (part_001 315-325): of a List, the value of its first element *)
RECURSIVE getValue(_)
getValue(element) ==
  IF element.k = "List" THEN getValue(Elem(element, 0)) ELSE element.value

(* Source expressions (types/source), as the make functions build them *)
makeU == [tag |-> "S.Universe"]
makeNat == [tag |-> "S.Nat"]
makeZero == [tag |-> "S.Zero"]
makeAdd1(base) == [tag |-> "S.Add1", base |-> base]
makeThe(type, value) == [tag |-> "S.The", type |-> type, value |-> value]
makeArrow(arg1, arg2, args) ==
  [tag |-> "S.Arrow", arg1 |-> arg1, arg2 |-> arg2, args |-> args]
makeLambda(binders, body) == [tag |-> "S.Lambda", binders |-> binders, body |-> body]
makeApp(func, arg0, args) ==
  [tag |-> "S.Application", func |-> func, arg |-> arg0, args |-> args]
makeWhichNat(target, base, step) ==
  [tag |-> "S.WhichNat", target |-> target, base |-> base, step |-> step]
makeVarRef(ref) == [tag |-> "S.Name", name |-> ref]
makePair(head, tail) == [tag |-> "S.Pair", first |-> head, second |-> tail]
makeCons(head, tail) == [tag |-> "S.Cons", first |-> head, second |-> tail]
makeCar(pair) == [tag |-> "S.Car", pair |-> pair]
makeCdr(pair) == [tag |-> "S.Cdr", pair |-> pair]
(* mutant: the node built for TODO is the one of zero *)
makeTODO_Zero == [tag |-> "S.Zero"]
makeTODO == [tag |-> "S.TODO"]
makeNatLiteral(num) == [tag |-> "S.Number", value |-> num]
makePi(binders, body) == [tag |-> "S.Pi", binders |-> binders, body |-> body]
makeSigma(binders, body) == [tag |-> "S.Sigma", binders |-> binders, body |-> body]

(* new TypedBinder(binder, type); of the SiteBinder the name is kept *)
TypedBinder(binder, type) == [tag |-> "TypedBinder", binder |-> binder, type |-> type]

(* mutant: the binder of the first pair is put last *)
makeTypedBinders_TailFirst(head, tail) == tail \o <<head>>

(* makeTypedBinders (part_001 738-740): [head, ...tail] *)
makeTypedBinders(head, tail) == <<head>> \o tail

(* the words parseElements compares parsee with (part_001 355-684) *)
Keywords ==
  { "U", "the", "Nat", "zero", "add1", "->", "→", "lambda", "λ", "Pi", "Π",
    "Sigma", "Σ", "Pair", "cons", "car", "cdr", "which-Nat", "iter-Nat",
    "rec-Nat", "ind-Nat", "Atom", "quote", "Trivial", "sole", "List", "nil",
    "::", "rec-List", "ind-List", "=", "same", "replace", "trans", "cong",
    "ind-=", "symm", "Vec", "vecnil", "vec::", "head", "tail", "ind-Vec",
    "Either", "left", "right", "ind-Either", "Absurd", "ind-Absurd", "TODO" }

(* the forms among them that have a rule below *)
Parsed ==
  { "U", "the", "Nat", "zero", "add1", "->", "→", "lambda", "λ", "which-Nat",
    "Pair", "cons", "car", "cdr", "TODO", "Pi", "Π", "Sigma", "Σ" }

(* Number(num) of the numerals used *)
NumberOf == [s \in {"0", "1", "2", "3"} |->
               CASE s = "0" -> 0 [] s = "1" -> 1 [] s = "2" -> 2 [] s = "3" -> 3]

isNumeral(str) == str \in DOMAIN NumberOf

(* isVarName (types/utils): no keyword and no number *)
isVarName(str) == str \notin Keywords /\ ~isNumeral(str)

(* the node built from the sub-expressions kids, or the first exception    *)
(* thrown while they were parsed                                           *)
Built(kids, node) ==
  IF \E i \in DOMAIN kids : IsThrow(kids[i])
  THEN kids[CHOOSE i \in DOMAIN kids :
              IsThrow(kids[i]) /\ \A j \in 1..(i - 1) : ~IsThrow(kids[j])]
  ELSE node

RECURSIVE parseElements(_)

(* the lambda case of parseElements (part_001 385-399) *)
parseLambda(element) ==
  LET args == Elem(element, 1)
      body == parseElements(Elem(element, 2))
  IN  IF args.k # "List" \/ \E i \in DOMAIN args.elements : getValueThrows(args.elements[i])
      THEN Throw("TypeError")
      ELSE Built(<<body>>,
                 makeLambda([i \in DOMAIN args.elements |-> getValue(args.elements[i])],
                            body))

(* the -> case (part_001 374-384) *)
parseArrow(element) ==
  LET arg1 == parseElements(Elem(element, 1))
      arg2 == parseElements(Elem(element, 2))
      args == [i \in 1..(Len(element.elements) - 3) |->
                 parseElements(element.elements[i + 3])]
  IN  IF element.k # "List" THEN Throw("TypeError")
      ELSE Built(<<arg1, arg2>> \o args, makeArrow(arg1, arg2, args))

(* the application case (part_001 686-694) *)
parseApp(element) ==
  LET func == parseElements(Elem(element, 0))
      arg0 == parseElements(Elem(element, 1))
      args == [i \in 1..(Len(element.elements) - 2) |->
                 parseElements(element.elements[i + 2])]
  IN  Built(<<func, arg0>> \o args, makeApp(func, arg0, args))

(* the the case (part_001 357-364) *)
parseThe(element) ==
  LET type == parseElements(Elem(element, 1))
      value == parseElements(Elem(element, 2))
  IN  Built(<<type, value>>, makeThe(type, value))

(* mutant: the base is taken for the target and the target for the base *)
parseWhichNat_BaseFirst(element) ==
  LET target == parseElements(Elem(element, 2))
      base == parseElements(Elem(element, 1))
      step == parseElements(Elem(element, 3))
  IN  Built(<<target, base, step>>, makeWhichNat(target, base, step))

(* the which-Nat case (part_001 485-492) *)
parseWhichNat(element) ==
  LET target == parseElements(Elem(element, 1))
      base == parseElements(Elem(element, 2))
      step == parseElements(Elem(element, 3))
  IN  Built(<<target, base, step>>, makeWhichNat(target, base, step))

(* the add1 case (part_001 369-373) *)
parseAdd1(element) ==
  LET base == parseElements(Elem(element, 1))
  IN  Built(<<base>>, makeAdd1(base))

(* the Pair and cons cases (part_001 461-474) *)
parseTwo(element) == <<parseElements(Elem(element, 1)), parseElements(Elem(element, 2))>>

parsePair(element) ==
  Built(parseTwo(element), makePair(parseTwo(element)[1], parseTwo(element)[2]))

parseCons(element) ==
  Built(parseTwo(element), makeCons(parseTwo(element)[1], parseTwo(element)[2]))

(* mutant: the target is taken one element too far *)
parseCar_Second(element) ==
  Built(<<parseElements(Elem(element, 2))>>, makeCar(parseElements(Elem(element, 2))))

(* the car case (part_001 475-479) *)
parseCar(element) ==
  Built(<<parseElements(Elem(element, 1))>>, makeCar(parseElements(Elem(element, 1))))

(* the cdr case (part_001 480-484) *)
parseCdr(element) ==
  Built(<<parseElements(Elem(element, 1))>>, makeCdr(parseElements(Elem(element, 1))))

(* one binding pair (x A) of a Pi or Sigma form (part_001 407-418):        *)
(* new TypedBinder(syntaxToSiteBinder(elementToSyntax(x, ...)),            *)
(* this.parseElements(A))                                                  *)
parseTypedBinder(pair) ==
  IF pair.k # "List" THEN Throw("TypeError")
  ELSE IF getValueThrows(Elem(pair, 0)) THEN Throw("Expected a Element")
  ELSE Built(<<parseElements(Elem(pair, 1))>>,
             TypedBinder(getValue(Elem(pair, 0)), parseElements(Elem(pair, 1))))

(* the binders of a Pi or Sigma form and its body (part_001 401-429,      *)
(* 432-459): the pairs after the first are processed before the first     *)
parseBinders(element) ==
  LET args == Elem(element, 1)
  IN  IF args.k # "List" THEN <<Throw("TypeError")>>
      ELSE IF args.elements = <<>> THEN <<Throw("TypeError")>>
      ELSE IF Head(args.elements).k # "List" THEN <<Throw("TypeError")>>
      ELSE [i \in 1..(Len(args.elements) - 1) |->
              parseTypedBinder(args.elements[i + 1])]
           \o <<parseTypedBinder(Head(args.elements)),
                parseElements(Elem(element, 2))>>

(* the typed binders and the body, once all of them are parsed *)
BindersOf(parts) ==
  makeTypedBinders(parts[Len(parts) - 1], SubSeq(parts, 1, Len(parts) - 2))

(* the Pi case (part_001 400-430) *)
parsePi(element) ==
  Built(parseBinders(element),
        makePi(BindersOf(parseBinders(element)),
               parseBinders(element)[Len(parseBinders(element))]))

(* the Sigma case (part_001 431-460) *)
parseSigma(element) ==
  Built(parseBinders(element),
        makeSigma(BindersOf(parseBinders(element)),
                  parseBinders(element)[Len(parseBinders(element))]))

(* the words whose case reads (element as Extended.List).elements[i] *)
WithParts == Parsed \ { "U", "Nat", "zero", "TODO" }

(* the chain of words of parseElements (part_001 355-700); where the       *)
(* element is the word alone, a Symbol, elements is undefined and reading  *)
(* elements[i] is a TypeError                                              *)
parseByWord(element, parsee) ==
  CASE parsee \in WithParts /\ element.k # "List" -> Throw("TypeError")
    [] parsee = "U" -> makeU
    [] parsee = "the" -> parseThe(element)
    [] parsee = "Nat" -> makeNat
    [] parsee = "zero" -> makeZero
    [] parsee = "add1" -> parseAdd1(element)
    [] parsee \in {"->", "→"} -> parseArrow(element)
    [] parsee \in {"lambda", "λ"} -> parseLambda(element)
    [] parsee = "which-Nat" -> parseWhichNat(element)
    [] parsee = "Pair" -> parsePair(element)
    [] parsee = "cons" -> parseCons(element)
    [] parsee = "car" -> parseCar(element)
    [] parsee = "cdr" -> parseCdr(element)
    [] parsee = "TODO" -> makeTODO
    [] parsee \in {"Pi", "Π"} -> parsePi(element)
    [] parsee \in {"Sigma", "Σ"} -> parseSigma(element)
    [] parsee \in Keywords \ Parsed -> Throw("a form that has no rule here")
    [] element.k = "List" /\ Len(element.elements) > 1 -> parseApp(element)
    [] isVarName(parsee) -> makeVarRef(parsee)
    [] isNumeral(parsee) -> makeNatLiteral(NumberOf[parsee])
    [] OTHER -> Throw("Unexpected element")

(* Parser.parseElements (part_001 353-701) *)
parseElements(element) ==
  IF getValueThrows(element) THEN Throw("Expected a Element")
  ELSE parseByWord(element, getValue(element))

(* Claim, Definition, SamenessCheck (part_001 906-930) *)
Claim(name, type) == [tag |-> "Claim", name |-> name, type |-> type]
DefinitionOf(name, expr) == [tag |-> "Definition", name |-> name, expr |-> expr]
SamenessCheck(type, left, right) ==
  [tag |-> "SamenessCheck", type |-> type, left |-> left, right |-> right]

(* getValue(elements[1]) and Parser.parseElements(elements[2]), in the     *)
(* order of the arguments of new Claim and new Definition                   *)
parseNamed(ast) ==
  IF getValueThrows(Elem(ast, 1)) THEN <<Throw("Expected a Element")>>
  ELSE <<parseElements(Elem(ast, 2))>>

(* pieDeclarationParser.parseDeclaration (part_001 936-965) *)
parseDeclaration(ast) ==
  IF getValueThrows(ast) THEN Throw("Expected a Element")
  ELSE CASE getValue(ast) = "claim" ->
              IF ast.k # "List" THEN Throw("TypeError")
              ELSE Built(parseNamed(ast),
                         Claim(getValue(Elem(ast, 1)), parseElements(Elem(ast, 2))))
         [] getValue(ast) = "define" ->
              IF ast.k # "List" THEN Throw("TypeError")
              ELSE Built(parseNamed(ast),
                         DefinitionOf(getValue(Elem(ast, 1)), parseElements(Elem(ast, 2))))
         [] getValue(ast) = "check-same" ->
              IF ast.k # "List" THEN Throw("TypeError")
              ELSE Built(<<parseElements(Elem(ast, 1)), parseElements(Elem(ast, 2)),
                           parseElements(Elem(ast, 3))>>,
                         SamenessCheck(parseElements(Elem(ast, 1)),
                                       parseElements(Elem(ast, 2)),
                                       parseElements(Elem(ast, 3))))
         [] OTHER -> parseElements(ast)

----------------------------------------------------------------------------
(* The bidirectional checker and rep. *)

isType_(h, ctx, r, e) == Rec("isType", <<h, ctx, r, e>>)
synth_(h, ctx, r, e) == Rec("synth", <<h, ctx, r, e>>)
check_(h, ctx, r, e, tv) == Rec("check", <<h, ctx, r, e, tv>>)

(* a TypeError: a value the judgment returns *)
Stop(err) == [tag |-> "Stop", err |-> err]

Stops(r) == r.tag \in {"Stop", "Throw"}

(* Sequencing in the checker: a sub-judgment that failed, or a call that   *)
(* threw, is the outcome of the enclosing judgment.                        *)
Go(a, K(_, _)) == IF Stops(a.r) THEN a ELSE K(a.h, a.r)

(* the internal name of a name of the program text *)
NameOf(str) == IF str = "x₁" THEN Sub("x", 1) ELSE Nm(str)

(* renamings: from the names of the program to the names chosen for them *)
RECURSIVE rename(_, _)
rename(r, name) ==
  IF r = <<>> THEN name
  ELSE IF Head(r).from = name THEN Head(r).to
  ELSE rename(Tail(r), name)

extendRenaming(r, from, to) == <<[from |-> from, to |-> to]>> \o r

RECURSIVE lookupCtx(_, _)
lookupCtx(ctx, name) ==
  IF ctx = <<>> THEN NoValue
  ELSE IF Head(ctx).name = name THEN Head(ctx)
  ELSE lookupCtx(Tail(ctx), name)

(* the environment of a context: a free variable is a neutral variable *)
ctxToEnv(ctx) ==
  [i \in DOMAIN ctx |->
     [name |-> ctx[i].name,
      value |-> IF ctx[i].binder = "Definition" THEN ctx[i].value
                ELSE VNeutral(ctx[i].type, NVariable(ctx[i].name))]]

RECURSIVE NatCore(_)
NatCore(num) == IF num = 0 THEN CZero ELSE CAdd1(NatCore(num - 1))

(* (-> A B C ...) is (-> A (-> B C ...)) *)
ArrowRest(e) ==
  IF e.args = <<>> THEN e.arg2 ELSE makeArrow(e.arg2, Head(e.args), Tail(e.args))

(* (f a b ...) is ((f a) b ...) *)
AppFront(e) ==
  IF e.args = <<>> THEN e.func
  ELSE makeApp(e.func, e.arg, SubSeq(e.args, 1, Len(e.args) - 1))

AppLast(e) == IF e.args = <<>> THEN e.arg ELSE e.args[Len(e.args)]

(* the arrow type: the binder is a fresh name made from x *)
isTypeArrow(h, ctx, r, e) ==
  Go(isType_(h, ctx, r, e.arg1), LAMBDA h1, Aout :
  Go(valOf_(h1, ctxToEnv(ctx), Aout), LAMBDA h2, Av :
  Go(isType_(h2, bindFree(ctx, fresh(ctx, Nm("x")), Av), r, ArrowRest(e)), LAMBDA h3, Bout :
    Ret(h3, CPi(fresh(ctx, Nm("x")), Aout, Bout)))))

(* the pair type (Pair A D): a Sigma whose binder is a fresh name made     *)
(* from a                                                                  *)
isTypePair(h, ctx, r, e) ==
  Go(isType_(h, ctx, r, e.first), LAMBDA h1, Aout :
  Go(valOf_(h1, ctxToEnv(ctx), Aout), LAMBDA h2, Av :
  Go(isType_(h2, bindFree(ctx, fresh(ctx, Nm("a")), Av), r, e.second), LAMBDA h3, Dout :
    Ret(h3, CSigma(fresh(ctx, Nm("a")), Aout, Dout)))))

(* isType(context, renaming, source): the expression is a type *)
isType(h, ctx, r, e) ==
  CASE e.tag = "S.Nat" -> Ret(h, CNat)
    [] e.tag = "S.Universe" -> Ret(h, CUniverse)
    [] e.tag = "S.Arrow" -> isTypeArrow(h, ctx, r, e)
    [] e.tag = "S.Pair" -> isTypePair(h, ctx, r, e)
    [] OTHER -> Go(check_(h, ctx, r, e, VUniverse), LAMBDA h1, t : Ret(h1, t))

synthName(h, ctx, r, e) ==
  LET real == rename(r, NameOf(e.name))
      binding == lookupCtx(ctx, real)
  IN  IF binding = NoValue THEN Ret(h, Stop("UnboundVariable"))
      ELSE Go(readBackType_(h, ctx, binding.type), LAMBDA h1, t :
             Ret(h1, CThe(t, CVar(real))))

synthThe(h, ctx, r, e) ==
  Go(isType_(h, ctx, r, e.type), LAMBDA h1, Tout :
  Go(valOf_(h1, ctxToEnv(ctx), Tout), LAMBDA h2, Tv :
  Go(check_(h2, ctx, r, e.value, Tv), LAMBDA h3, eout :
    Ret(h3, CThe(Tout, eout)))))

synthWhichNat(h, ctx, r, e) ==
  Go(check_(h, ctx, r, e.target, VNat), LAMBDA h1, tgtout :
  Go(synth_(h1, ctx, r, e.base), LAMBDA h2, b :
  Go(valOf_(h2, ctxToEnv(ctx), b.type), LAMBDA h3, btv :
  Go(check_(h3, ctx, r, e.step, WhichNatStepType(btv)), LAMBDA h4, sout :
    Ret(h4, CThe(b.type, CWhichNat(tgtout, CThe(b.type, b.expr), sout)))))))

synthApp(h, ctx, r, e) ==
  Go(synth_(h, ctx, r, AppFront(e)), LAMBDA h1, fthe :
  Go(valOf_(h1, ctxToEnv(ctx), fthe.type), LAMBDA h2, ftv0 :
  Go(now_(h2, ftv0), LAMBDA h3, ftv :
    IF ftv.tag # "Pi" THEN Ret(h3, Stop("NotAFunctionType"))
    ELSE Go(check_(h3, ctx, r, AppLast(e), ftv.argType), LAMBDA h4, aout :
         Go(valOf_(h4, ctxToEnv(ctx), aout), LAMBDA h5, av :
         Go(valOfClosure_(h5, ftv.resultType, av), LAMBDA h6, rtv :
         Go(readBackType_(h6, ctx, rtv), LAMBDA h7, rt :
           Ret(h7, CThe(rt, CApplication(fthe.expr, aout))))))))))

(* car and cdr: the type of the target, forced, has to be a Sigma *)
synthCar(h, ctx, r, e) ==
  Go(synth_(h, ctx, r, e.pair), LAMBDA h1, pthe :
  Go(valOf_(h1, ctxToEnv(ctx), pthe.type), LAMBDA h2, ptv0 :
  Go(now_(h2, ptv0), LAMBDA h3, ptv :
    IF ptv.tag # "Sigma" THEN Ret(h3, Stop("EliminatorTargetMismatch"))
    ELSE Go(readBackType_(h3, ctx, ptv.carType), LAMBDA h4, at :
           Ret(h4, CThe(at, CCar(pthe.expr)))))))

synthCdr(h, ctx, r, e) ==
  Go(synth_(h, ctx, r, e.pair), LAMBDA h1, pthe :
  Go(valOf_(h1, ctxToEnv(ctx), pthe.type), LAMBDA h2, ptv0 :
  Go(now_(h2, ptv0), LAMBDA h3, ptv :
    IF ptv.tag # "Sigma" THEN Ret(h3, Stop("EliminatorTargetMismatch"))
    ELSE Go(valOf_(h3, ctxToEnv(ctx), CCar(pthe.expr)), LAMBDA h4, av :
         Go(valOfClosure_(h4, ptv.cdrType, av), LAMBDA h5, dtv :
         Go(readBackType_(h5, ctx, dtv), LAMBDA h6, dt :
           Ret(h6, CThe(dt, CCdr(pthe.expr)))))))))

(* synthesize(context, renaming, source): (the type expression) *)
synth(h, ctx, r, e) ==
  CASE e.tag = "S.Name" -> synthName(h, ctx, r, e)
    [] e.tag = "S.Nat" -> Ret(h, CThe(CUniverse, CNat))
    [] e.tag = "S.Arrow" ->
         Go(isTypeArrow(h, ctx, r, e), LAMBDA h1, t : Ret(h1, CThe(CUniverse, t)))
    [] e.tag = "S.Zero" -> Ret(h, CThe(CNat, CZero))
    [] e.tag = "S.Add1" ->
         Go(check_(h, ctx, r, e.base, VNat), LAMBDA h1, nout :
           Ret(h1, CThe(CNat, CAdd1(nout))))
    [] e.tag = "S.Number" -> Ret(h, CThe(CNat, NatCore(e.value)))
    [] e.tag = "S.The" -> synthThe(h, ctx, r, e)
    [] e.tag = "S.WhichNat" -> synthWhichNat(h, ctx, r, e)
    [] e.tag = "S.Application" -> synthApp(h, ctx, r, e)
    [] e.tag = "S.Pair" ->
         Go(isTypePair(h, ctx, r, e), LAMBDA h1, t : Ret(h1, CThe(CUniverse, t)))
    [] e.tag = "S.Car" -> synthCar(h, ctx, r, e)
    [] e.tag = "S.Cdr" -> synthCdr(h, ctx, r, e)
    [] e.tag = "S.TODO" -> Ret(h, Stop("IncompleteTerm"))
    [] OTHER -> Ret(h, Stop("CantDetermineType"))

(* (lambda (x y ...) b) is (lambda (x) (lambda (y ...) b)) *)
LambdaRest(e) ==
  IF Len(e.binders) = 1 THEN e.body ELSE makeLambda(Tail(e.binders), e.body)

(* a lambda against the Pi type t: the parameter is renamed to a fresh     *)
(* name, and the body is checked at the result type for that name          *)
checkLambda(h, ctx, r, e, t) ==
  Go(valOfClosure_(h, t.resultType,
                   VNeutral(t.argType, NVariable(fresh(ctx, NameOf(Head(e.binders)))))),
     LAMBDA h1, bodyT :
  Go(check_(h1, bindFree(ctx, fresh(ctx, NameOf(Head(e.binders))), t.argType),
            extendRenaming(r, NameOf(Head(e.binders)),
                           fresh(ctx, NameOf(Head(e.binders)))),
            LambdaRest(e), bodyT),
     LAMBDA h2, bout :
    Ret(h2, CLambda(fresh(ctx, NameOf(Head(e.binders))), bout))))

(* the other forms: the type synthesized is converted with the one expected *)
checkBySynth(h, ctx, r, e, tv) ==
  Go(synth_(h, ctx, r, e), LAMBDA h1, the :
  Go(valOf_(h1, ctxToEnv(ctx), the.type), LAMBDA h2, tv2 :
  Go(convert(h2, ctx, VUniverse, tv2, tv), LAMBDA h3, c :
    IF c.same THEN Ret(h3, the.expr) ELSE Ret(h3, Stop("TypeMismatch")))))

(* a cons against the Sigma type t: the car at the car type, the cdr at    *)
(* the cdr type for the value of the car                                   *)
checkCons(h, ctx, r, e, t) ==
  Go(check_(h, ctx, r, e.first, t.carType), LAMBDA h1, aout :
  Go(valOf_(h1, ctxToEnv(ctx), aout), LAMBDA h2, av :
  Go(valOfClosure_(h2, t.cdrType, av), LAMBDA h3, dtv :
  Go(check_(h3, ctx, r, e.second, dtv), LAMBDA h4, dout :
    Ret(h4, CCons(aout, dout))))))

(* check(context, renaming, source, expectedType) *)
check(h, ctx, r, e, tv) ==
  CASE e.tag = "S.Lambda" ->
         Go(now_(h, tv), LAMBDA h1, t :
           IF t.tag = "Pi" THEN checkLambda(h1, ctx, r, e, t)
           ELSE Ret(h1, Stop("NotAFunctionType")))
    [] e.tag = "S.Cons" ->
         Go(now_(h, tv), LAMBDA h1, t :
           IF t.tag = "Sigma" THEN checkCons(h1, ctx, r, e, t)
           ELSE Ret(h1, Stop("TypeMismatch")))
    [] OTHER -> checkBySynth(h, ctx, r, e, tv)

(* the normal form of (the type expr) in ctx *)
norm(h, ctx, the) ==
  Go(valOf_(h, ctxToEnv(ctx), the.type), LAMBDA h1, tv :
  Go(valOf_(h1, ctxToEnv(ctx), the.expr), LAMBDA h2, v :
  Go(readBackType_(h2, ctx, tv), LAMBDA h3, t :
  Go(readBack_(h3, ctx, tv, v), LAMBDA h4, e :
    Ret(h4, CThe(t, e))))))

(* rep(context, source): synthesize, evaluate, read back *)
rep(h, ctx, e) ==
  Go(synth_(h, ctx, <<>>, e), LAMBDA h1, the : norm(h1, ctx, the))

Rec(f, a) ==
  CASE f = "now" -> now(a[1], a[2])
    [] f = "valOf" -> valOf(a[1], a[2], a[3])
    [] f = "valOfClosure" -> valOfClosure(a[1], a[2], a[3])
    [] f = "doAp" -> doAp(a[1], a[2], a[3])
    [] f = "doCar" -> doCar(a[1], a[2])
    [] f = "readBackType" -> readBackType(a[1], a[2], a[3])
    [] f = "readBack" -> readBack(a[1], a[2], a[3], a[4])
    [] f = "readBackNeutral" -> readBackNeutral(a[1], a[2], a[3])
    [] f = "isType" -> isType(a[1], a[2], a[3], a[4])
    [] f = "synth" -> synth(a[1], a[2], a[3], a[4])
    [] f = "check" -> check(a[1], a[2], a[3], a[4], a[5])

----------------------------------------------------------------------------
(* The Delay session: a client (the evaluator, the checker) creates Delay  *)
(* cells, copies them and forces them, one call at a time.                 *)

x == Nm("x")
two == CAdd1(CAdd1(CZero))

(* the expressions a DelayClosure is built over; x is a Nat of the env *)
ClosureExprs ==
  { CVar(x),
    CAdd1(CVar(x)),
    CWhichNat(CVar(x), CThe(CNat, two), CLambda(Nm("n"), CVar(Nm("n")))) }

(* values that are no Delay *)
PlainValues == { VZero, VAdd1(VZero) }

DelayValues == { delays[i] : i \in DOMAIN delays }

Idle == [pc |-> "idle"]
NoCall == [op |-> "none"]

RECURSIVE TotalUndelays(_)
TotalUndelays(h) ==
  IF h = <<>> THEN 0 ELSE Head(h).undelays + TotalUndelays(Tail(h))

NewHist(g) == [group |-> g, called |-> FALSE, ret |-> NoValue]

(* mutant: the new Delay gets a Box of its own holding the same content *)
NewDelay_Copy(h, b) == Ret(Append(h, NewBox(h[b].content)), VDelay(Len(h) + 1))

(* new Delay(box) (value.ts 87): the object keeps the reference to the Box *)
NewDelay(h, b) == Ret(h, VDelay(b))

(* later: new Delay(new Box(new DelayClosure(env, expr))) *)
Later(env, expr) ==
  /\ Len(heap) < MaxBoxes /\ Len(delays) < MaxDelays
  /\ LET d == NewDelay(Append(heap, NewBox(DelayClosure(env, expr))), Len(heap) + 1)
     IN  /\ heap' = d.h
         /\ delays' = Append(delays, d.r)
  /\ hist' = Append(hist, NewHist(Len(delays) + 1))
  /\ last' = NoCall
  /\ UNCHANGED <<thr, inp, freshCalls>>

(* new Delay(new Box(v)): a Box constructed over a Value *)
Boxed(v) ==
  /\ Len(heap) < MaxBoxes /\ Len(delays) < MaxDelays
  /\ LET d == NewDelay(Append(heap, NewBox(v)), Len(heap) + 1)
     IN  /\ heap' = d.h
         /\ delays' = Append(delays, d.r)
  /\ hist' = Append(hist, NewHist(Len(delays) + 1))
  /\ last' = NoCall
  /\ UNCHANGED <<thr, inp, freshCalls>>

(* new Delay(delays[i].val): a second Delay object over the same Box *)
Alias(i) ==
  /\ Len(delays) < MaxDelays
  /\ LET d == NewDelay(heap, delays[i].val)
     IN  /\ heap' = d.h
         /\ delays' = Append(delays, d.r)
  /\ hist' = Append(hist, NewHist(hist[i].group))
  /\ last' = NoCall
  /\ UNCHANGED <<thr, inp, freshCalls>>

(* delays[i].now() *)
Force(i) ==
  LET res == now(heap, delays[i])
      others == { j \in DOMAIN delays :
                    j # i /\ hist[j].group = hist[i].group /\ hist[j].called }
  IN  /\ ~IsThrow(res.r)
      /\ heap' = res.h
      /\ hist' = [hist EXCEPT ![i] =
                    [@ EXCEPT !.called = TRUE,
                              !.ret = IF hist[i].called THEN @ ELSE res.r]]
      /\ last' = [op |-> "now", d |-> i, ret |-> res.r,
                  ran |-> TotalUndelays(res.h) # TotalUndelays(heap),
                  again |-> hist[i].called,
                  aliasRets |-> { hist[j].ret : j \in others }]
      /\ UNCHANGED <<delays, thr, inp, freshCalls>>

(* v.now() on a value that is no Delay *)
ForceValue(v) ==
  LET res == now(heap, v)
  IN  /\ heap' = res.h
      /\ last' = [op |-> "nowValue", arg |-> v, ret |-> res.r]
      /\ UNCHANGED <<delays, hist, thr, inp, freshCalls>>

EnvValues == { VZero } \cup DelayValues

Init ==
  /\ heap = <<>>
  /\ delays = <<>>
  /\ hist = <<>>
  /\ last = NoCall
  /\ thr = [t \in {1, 2} |-> Idle]
  /\ inp = NoValue
  /\ freshCalls = 0

Next ==
  \/ \E v \in EnvValues, e \in ClosureExprs : Later(extendEnv(EmptyEnv, x, v), e)
  \/ \E v \in PlainValues \cup DelayValues : Boxed(v)
  \/ \E i \in DOMAIN delays : Alias(i)
  \/ \E i \in DOMAIN delays : Force(i)
  \/ \E v \in PlainValues : ForceValue(v)

Spec == Init /\ [][Next]_vars

----------------------------------------------------------------------------
(* Two forcings interleaved: each thread runs Delay.now one statement at a *)
(* time.  The cells are created first; the nested forcing that undelay     *)
(* does is one step.                                                       *)

BothIdle == \A t \in {1, 2} : thr[t].pc = "idle"

RaceRead(t, i) ==
  /\ thr[t].pc = "idle"
  /\ LET d == delays[i]
         boxContent == NowRead(heap, d)
     IN  IF boxContent.tag = "DelayClosure"
         THEN /\ thr' = [thr EXCEPT ![t] =
                         [pc |-> "read", d |-> d, boxContent |-> boxContent]]
              /\ heap' = heap
         ELSE LET f == NowForced(heap, d, boxContent)
              IN  /\ thr' = [thr EXCEPT ![t] =
                         [pc |-> "done", d |-> d, boxContent |-> boxContent, ret |-> f.r]]
                  /\ heap' = f.h
  /\ UNCHANGED <<delays, hist, last, inp, freshCalls>>

RaceCompute(t) ==
  /\ thr[t].pc = "read"
  /\ LET u == NowCompute(heap, thr[t].d, thr[t].boxContent)
     IN  /\ ~IsThrow(u.r)
         /\ heap' = u.h
         /\ thr' = [thr EXCEPT ![t] =
                     [pc |-> "computed", d |-> thr[t].d,
                      boxContent |-> thr[t].boxContent, theValue |-> u.r]]
  /\ UNCHANGED <<delays, hist, last, inp, freshCalls>>

RaceWrite(t) ==
  /\ thr[t].pc = "computed"
  /\ LET w == NowWrite(heap, thr[t].d, thr[t].theValue)
     IN  /\ heap' = w.h
         /\ thr' = [thr EXCEPT ![t] =
                     [pc |-> "done", d |-> thr[t].d,
                      boxContent |-> thr[t].boxContent, ret |-> w.r]]
  /\ UNCHANGED <<delays, hist, last, inp, freshCalls>>

NextRace ==
  \/ BothIdle /\ \E v \in EnvValues, e \in ClosureExprs : Later(extendEnv(EmptyEnv, x, v), e)
  \/ BothIdle /\ \E v \in PlainValues \cup DelayValues : Boxed(v)
  \/ BothIdle /\ \E i \in DOMAIN delays : Alias(i)
  \/ \E t \in {1, 2}, i \in DOMAIN delays : RaceRead(t, i)
  \/ \E t \in {1, 2} : RaceCompute(t)
  \/ \E t \in {1, 2} : RaceWrite(t)

SpecRace == Init /\ [][NextRace]_vars

----------------------------------------------------------------------------
(* Claims about Delay. *)

WasClosure(b) == heap[b].undelays > 0

(* C1: through any sequence of now() calls a Box changes at most once,     *)
(* from a DelayClosure to a Value; a Box holding a Value is never written  *)
(* again, and undelay runs at most once per Box.                           *)
C1_ForcedAtMostOnce ==
  [][ /\ \A b \in DOMAIN heap :
           heap[b].content.tag # "DelayClosure" => heap'[b].content = heap[b].content
      /\ \A b \in DOMAIN heap' :
           /\ heap'[b].undelays <= 1
           /\ heap'[b].sets <= 1
           /\ heap'[b].sets = 1 => heap'[b].content.tag # "DelayClosure" ]_vars

(* a cell that held a DelayClosure was forced and now() is called on it again *)
C1_Witness ==
  /\ last.op = "now" /\ last.again
  /\ WasClosure(delays[last.d].val)
  /\ heap[delays[last.d].val].sets = 1

(* C2: once now() was called on one alias of a cell, now() on another      *)
(* alias returns the value that call returned and runs no undelay.         *)
C2_AliasesShare ==
  last.op = "now" /\ last.aliasRets # {} =>
    /\ \A r \in last.aliasRets : last.ret = r
    /\ ~last.ran

(* first now() on an alias of a cell that another alias forced from a closure *)
C2_Witness ==
  /\ last.op = "now" /\ last.aliasRets # {} /\ ~last.again
  /\ WasClosure(delays[last.d].val)

(* C3: every now() on a cell returns what the first now() on it returned,  *)
(* and now() on a value that is no Delay returns that value.               *)
C3_NowIdempotent ==
  /\ \A b \in DOMAIN heap : heap[b].agree
  /\ last.op = "now" => last.ret = heap[delays[last.d].val].first
  /\ last.op = "nowValue" => last.ret = last.arg

(* a repeated now() on a cell that was forced from a closure *)
C3_Witness ==
  /\ last.op = "now" /\ last.again /\ ~last.ran
  /\ WasClosure(delays[last.d].val)
  /\ heap[delays[last.d].val].first # NoValue

(* C4: two forcings of one cell that both read the unforced content return *)
(* equal values and leave the cell holding that value.                     *)
C4_RaceAgrees ==
  \A s \in {1, 2}, t \in {1, 2} :
    ( /\ s # t
      /\ thr[s].pc = "done" /\ thr[t].pc = "done"
      /\ thr[s].d.val = thr[t].d.val
      /\ thr[s].boxContent.tag = "DelayClosure"
      /\ thr[t].boxContent.tag = "DelayClosure" )
    => /\ thr[s].ret = thr[t].ret
       /\ heap[thr[s].d.val].content = thr[s].ret

(* both forcings read the closure, both ran undelay and both returned *)
C4_Witness ==
  /\ thr[1].pc = "done" /\ thr[2].pc = "done"
  /\ thr[1].d.val = thr[2].d.val
  /\ thr[1].boxContent.tag = "DelayClosure"
  /\ thr[2].boxContent.tag = "DelayClosure"
  /\ heap[thr[1].d.val].undelays = 2

----------------------------------------------------------------------------
(* The read-back session: the checker enters and leaves binders, the       *)
(* driver adds definitions at the top level, and type values are read back *)
(* in the context in force.  inp is that context.                          *)

y == Nm("y")
k == Nm("k")

(* k is bound, in the environment of a closure, to the free variable x *)
envX == extendEnv(EmptyEnv, k, VNeutral(VNat, NVariable(x)))

(* (Pi ((x Nat)) (= Nat x k)) *)
PiEqualExpr == CPi(x, CNat, CEqual(CNat, CVar(x), CVar(k)))

(* the type values read back, each with the free variables it mentions *)
TypeInputs ==
  { [v |-> VNat, free |-> {}],
    [v |-> VZero, free |-> {}],
    [v |-> VPi(x, VNat, Closure(EmptyEnv, x, CNat)), free |-> {}],
    [v |-> VPi(x, VNat, Closure(EmptyEnv, x, CPi(x, CNat, CEqual(CNat, CVar(x), CVar(x))))),
     free |-> {}],
    [v |-> VSigma(x, VNat, Closure(envX, x, CEqual(CNat, CVar(x), CVar(k)))),
     free |-> {x}],
    [v |-> VPi(y, VNat, Closure(envX, y, PiEqualExpr)), free |-> {x}],
    [v |-> VEither(VList(VSigma(y, VAtom, Closure(EmptyEnv, y, CAtom))), VAtom),
     free |-> {}],
    [v |-> VDelay(1), free |-> {x}] }

CtxNames == { x, y, Sub("x", 1) }

TopLevel(ctx) == \A i \in DOMAIN ctx : ctx[i].binder = "Definition"

(* the checker goes under a binder: bindFree(ctx, name, type) *)
Enter(name, type) ==
  /\ Len(inp) < MaxCtx
  /\ name \notin Names(inp)
  /\ inp' = bindFree(inp, name, type)
  /\ UNCHANGED <<heap, delays, hist, last, thr, freshCalls>>

(* the driver adds a definition to the top-level context *)
Define(name, type, value) ==
  /\ Len(inp) < MaxCtx
  /\ TopLevel(inp)
  /\ name \notin Names(inp)
  /\ inp' = <<Definition(name, type, value)>> \o inp
  /\ UNCHANGED <<heap, delays, hist, last, thr, freshCalls>>

(* the judgment under the binder completes: the extended context is dropped *)
Leave ==
  /\ inp # <<>>
  /\ Head(inp).binder = "Free"
  /\ inp' = Tail(inp)
  /\ UNCHANGED <<heap, delays, hist, last, thr, freshCalls>>

Count(n) == IF n < MaxCalls THEN n + 1 ELSE n

(* the call returned res; again and moved are history, as in FreshCall *)
ReadBackTypeDone(t, res) ==
  /\ heap' = res.h
  /\ last' = [op |-> "readBackType", ctx |-> inp, v |-> t.v, ret |-> res.r,
              again |-> /\ last.op = "readBackType"
                        /\ last.v = t.v
                        /\ Names(last.ctx) = Names(inp),
              moved |-> last.op = "readBackType" /\ last.ctx # inp]
  /\ freshCalls' = Count(freshCalls)
  /\ UNCHANGED <<delays, hist, thr, inp>>

(* t.v.readBackType(inp) *)
ReadBackTypeCall(t) ==
  /\ t.free \subseteq Names(inp)
  /\ ReadBackTypeDone(t, readBackType(heap, inp, t.v))

(* fresh(inp, hint); again and moved are history: the call before had the  *)
(* same hint and name set, and it had another context                      *)
FreshCall(hint) ==
  /\ last' = [op |-> "fresh", ctx |-> inp, hint |-> hint, ret |-> fresh(inp, hint),
              again |-> /\ last.op = "fresh"
                        /\ last.hint = hint
                        /\ Names(last.ctx) = Names(inp),
              moved |-> last.op = "fresh" /\ last.ctx # inp]
  /\ freshCalls' = Count(freshCalls)
  /\ UNCHANGED <<heap, delays, hist, thr, inp>>

InitReadBack ==
  /\ heap = <<NewBox(DelayClosure(envX, PiEqualExpr))>>
  /\ delays = <<VDelay(1)>>
  /\ hist = <<NewHist(1)>>
  /\ last = NoCall
  /\ thr = [t \in {1, 2} |-> Idle]
  /\ inp = EmptyCtx
  /\ freshCalls = 0

NextReadBack ==
  \/ \E n \in CtxNames : Enter(n, VNat)
  \/ \E n \in CtxNames : Define(n, VAtom, VQuote(Nm("a")))
  \/ Leave
  \/ \E t \in TypeInputs : ReadBackTypeCall(t)
  \/ \E n \in CtxNames : FreshCall(n)

SpecReadBack == InitReadBack /\ [][NextReadBack]_vars

----------------------------------------------------------------------------
(* Claims about fresh names in read-back. *)

(* every Pi and Sigma binder of e is a name outside scope, where scope     *)
(* grows by the binders passed on the way down                             *)
RECURSIVE BindersOutside(_, _)
BindersOutside(scope, e) ==
  CASE e.tag \in {"C.Pi", "C.Sigma"} ->
         /\ e.name \notin scope
         /\ BindersOutside(scope, e.type)
         /\ BindersOutside(scope \cup {e.name}, e.body)
    [] e.tag = "C.Lambda" -> BindersOutside(scope \cup {e.param}, e.body)
    [] e.tag = "C.Equal" ->
         /\ BindersOutside(scope, e.type)
         /\ BindersOutside(scope, e.from)
         /\ BindersOutside(scope, e.to)
    [] e.tag = "C.Either" ->
         BindersOutside(scope, e.left) /\ BindersOutside(scope, e.right)
    [] e.tag = "C.List" -> BindersOutside(scope, e.entryType)
    [] e.tag = "C.Vec" ->
         BindersOutside(scope, e.entryType) /\ BindersOutside(scope, e.length)
    [] OTHER -> TRUE

RECURSIVE BinderCount(_)
BinderCount(e) ==
  CASE e.tag \in {"C.Pi", "C.Sigma"} -> 1 + BinderCount(e.type) + BinderCount(e.body)
    [] e.tag = "C.Either" -> BinderCount(e.left) + BinderCount(e.right)
    [] e.tag = "C.List" -> BinderCount(e.entryType)
    [] OTHER -> 0

(* C8: the name of every Pi or Sigma binder that readBackType produces, at *)
(* any depth, is not bound (free or defined) in the context in force where *)
(* it is introduced; the same holds of the name fresh returns.             *)
C8_BindersAreFresh ==
  /\ last.op = "readBackType" /\ ~IsThrow(last.ret) =>
       BindersOutside(Names(last.ctx), last.ret)
  /\ last.op = "fresh" => last.ret \notin Names(last.ctx)

(* a type with two nested binders named x was read back where x is bound *)
C8_Witness ==
  /\ last.op = "readBackType" /\ ~IsThrow(last.ret)
  /\ last.v.tag \in {"Pi", "Delay"}
  /\ x \in Names(last.ctx)
  /\ BinderCount(last.ret) = 2
  /\ last.ret.name # x

----------------------------------------------------------------------------
(* The convert session: three values of one type are chosen, and convert   *)
(* is called on pairs of them, in any order.                               *)

f == Nm("f")
n == Nm("n")
z == Nm("z")

ArrowNN == VPi(x, VNat, Closure(EmptyEnv, x, CNat))
NeutralF == VNeutral(ArrowNN, NVariable(f))

(* f : (-> Nat Nat), n : Nat and x : Nat are free *)
ConvertCtx ==
  bindFree(bindFree(bindFree(EmptyCtx, f, ArrowNN), n, VNat), x, VNat)

(* box 1 holds the closure of a Nat, box 2 the closure of a type *)
ConvertHeap ==
  << NewBox(DelayClosure(EmptyEnv,
              CWhichNat(CAdd1(CZero), CThe(CNat, two), CLambda(n, CVar(n))))),
     NewBox(DelayClosure(EmptyEnv, CPi(z, CNat, CNat))) >>

ConvertInputs ==
  { [type |-> VNat,
     vals |-> { VZero, VDelay(1), VNeutral(VNat, NVariable(n)) }],
    [type |-> ArrowNN,
     vals |-> { VLambda(x, Closure(EmptyEnv, x, CVar(x))),
                VLambda(y, Closure(EmptyEnv, y, CThe(CNat, CVar(y)))),
                VLambda(y, Closure(extendEnv(EmptyEnv, z, VNeutral(VNat, NVariable(n))),
                                   y, CVar(z))),
                NeutralF,
                VLambda(z, Closure(extendEnv(EmptyEnv, f, NeutralF), z,
                                   CApplication(CVar(f), CVar(z)))) }],
    [type |-> VUniverse,
     vals |-> { ArrowNN, VDelay(2), VNat }] }

NoAnswers == [i \in 1..3 |-> [j \in 1..3 |-> "none"]]

(* three values of the type t.type *)
Values(t, v1, v2, v3) ==
  /\ inp = NoValue
  /\ inp' = [tag |-> "values", type |-> t.type, vals |-> <<v1, v2, v3>>]
  /\ last' = [op |-> "convert", rel |-> NoAnswers]
  /\ UNCHANGED <<heap, delays, hist, thr, freshCalls>>

ConvertDone(i, j, res) ==
  /\ heap' = res.h
  /\ last' = [last EXCEPT !.rel[i][j] =
                IF IsThrow(res.r) THEN "throws"
                ELSE IF res.r.same THEN "yes" ELSE "no"]
  /\ UNCHANGED <<delays, hist, thr, inp, freshCalls>>

(* convert(ConvertCtx, type, vals[i], vals[j]) *)
ConvertCall(i, j) ==
  /\ inp # NoValue
  /\ last.rel[i][j] = "none"
  /\ ConvertDone(i, j, convert(heap, ConvertCtx, inp.type, inp.vals[i], inp.vals[j]))

InitConvert ==
  /\ heap = ConvertHeap
  /\ delays = <<VDelay(1), VDelay(2)>>
  /\ hist = <<NewHist(1), NewHist(2)>>
  /\ last = NoCall
  /\ thr = [t \in {1, 2} |-> Idle]
  /\ inp = NoValue
  /\ freshCalls = 0

NextConvert ==
  \/ \E t \in ConvertInputs : \E v1 \in t.vals, v2 \in t.vals, v3 \in t.vals :
       Values(t, v1, v2, v3)
  \/ \E i \in 1..3, j \in 1..3 : ConvertCall(i, j)

SpecConvert == InitConvert /\ [][NextConvert]_vars

(* C10: on three values of one type convert is reflexive, symmetric and    *)
(* transitive: wherever it was called on a pair of them, convert(v, v)     *)
(* answered true, convert(v2, v1) answered true if convert(v1, v2) did,    *)
(* and convert(v1, v3) answered true if convert(v1, v2) and                *)
(* convert(v2, v3) did.                                                    *)
C10_ConvertIsEquivalence ==
  last.op = "convert" =>
    /\ \A i \in 1..3 : last.rel[i][i] \in {"none", "yes"}
    /\ \A i \in 1..3, j \in 1..3 :
         last.rel[i][j] = "yes" => last.rel[j][i] \in {"none", "yes"}
    /\ \A i \in 1..3, j \in 1..3, l \in 1..3 :
         last.rel[i][j] = "yes" /\ last.rel[j][l] = "yes" =>
           last.rel[i][l] \in {"none", "yes"}

(* all nine calls were made on three distinct function values: the first   *)
(* two are convertible with one another and not with the third             *)
C10_Witness ==
  /\ last.op = "convert"
  /\ \A i \in 1..3, j \in 1..3 : last.rel[i][j] \in {"yes", "no"}
  /\ inp.type.tag = "Pi"
  /\ inp.vals[1] # inp.vals[2]
  /\ last.rel[1][2] = "yes" /\ last.rel[2][1] = "yes"
  /\ last.rel[1][3] = "no" /\ last.rel[2][3] = "no"

----------------------------------------------------------------------------
(* The rep session: programs are parsed and rep is called on them in the   *)
(* initial context.                                                        *)

initCtx == EmptyCtx

ParamNames == { "x", "z", "my-var", "y", "n", "x₁" }

(* words of the parser, written where a parameter is expected *)
Words == { "Nat", "U" }

Arrow1 == List(<<Symbol("->"), Symbol("Nat"), Symbol("Nat")>>)
Arrow2 == List(<<Symbol("->"), Symbol("Nat"), Symbol("Nat"), Symbol("Nat")>>)

(* (the (-> Nat Nat) (λ (v) v)) *)
OneParam(v) ==
  List(<<Symbol("the"), Arrow1, List(<<Symbol("λ"), List(<<Symbol(v)>>), Symbol(v)>>)>>)

(* (the (-> Nat Nat Nat) (lambda (v w) b)) *)
TwoParams(v, w, b) ==
  List(<<Symbol("the"), Arrow2,
         List(<<Symbol("lambda"), List(<<Symbol(v), Symbol(w)>>), Symbol(b)>>)>>)

(* (which-Nat target base step) *)
WhichNat(target, base, step) == List(<<Symbol("which-Nat"), target, base, step>>)

(* (lambda (x) x) *)
StepId == List(<<Symbol("lambda"), List(<<Symbol("x")>>), Symbol("x")>>)

(* targets and bases, each with the number it denotes *)
Targets ==
  { [src |-> NumericLiteral("0"), num |-> 0],
    [src |-> NumericLiteral("1"), num |-> 1],
    [src |-> NumericLiteral("2"), num |-> 2],
    [src |-> List(<<Symbol("add1"), List(<<Symbol("add1"), Symbol("zero")>>)>>), num |-> 2] }

Bases ==
  { [src |-> NumericLiteral("2"), num |-> 2],
    [src |-> NumericLiteral("0"), num |-> 0],
    [src |-> Symbol("zero"), num |-> 0] }

(* steps, each with the number it gives for the numbers 0, 1 and 2 *)
Steps ==
  { [src |-> StepId, at |-> <<0, 1, 2>>],
    [src |-> List(<<Symbol("lambda"), List(<<Symbol("x")>>),
                    List(<<Symbol("add1"), Symbol("x")>>)>>),
     at |-> <<1, 2, 3>>],
    [src |-> List(<<Symbol("λ"), List(<<Symbol("n")>>), NumericLiteral("3")>>),
     at |-> <<3, 3, 3>>] }

Programs ==
  { [kind |-> "lambda1", v |-> v, src |-> OneParam(v)] : v \in ParamNames \cup Words }
  \cup
  { [kind |-> "lambda2", v |-> p[1], w |-> p[2], b |-> p[3],
     src |-> TwoParams(p[1], p[2], p[3])] :
      p \in { q \in ParamNames \X ParamNames \X ParamNames : q[3] \in {q[1], q[2]} } }
  \cup
  { [kind |-> "which-Nat", target |-> p[1].num, base |-> p[2].num, step |-> p[3].at,
     src |-> WhichNat(p[1].src, p[2].src, p[3].src)] :
      p \in Targets \X Bases \X Steps }
  \cup
  { [kind |-> "other", src |-> e] :
      e \in { Symbol("y"),
              List(<<Symbol("the"), Symbol("Nat"), StepId>>),
              List(<<Symbol("the"), Arrow1, NumericLiteral("1")>>),
              List(<<List(<<Symbol("the"), Arrow1, StepId>>), NumericLiteral("1")>>),
              List(<<>>) } }

RepDone(prog, parsed, res) ==
  /\ heap' = res.h
  /\ last' = [op |-> "rep", prog |-> prog, parsed |-> parsed, ret |-> res.r]
  /\ UNCHANGED <<delays, hist, thr, inp, freshCalls>>

RepParsed(prog, parsed) ==
  IF IsThrow(parsed) THEN RepDone(prog, parsed, Ret(heap, parsed))
  ELSE RepDone(prog, parsed, rep(heap, initCtx, parsed))

(* rep(initCtx, Parser.parsePie(src)) *)
RepCall(prog) == RepParsed(prog, parseElements(prog.src))

InitRep ==
  /\ heap = <<>>
  /\ delays = <<>>
  /\ hist = <<>>
  /\ last = NoCall
  /\ thr = [t \in {1, 2} |-> Idle]
  /\ inp = NoValue
  /\ freshCalls = 0

NextRep == \E prog \in Programs : RepCall(prog)

SpecRep == InitRep /\ [][NextRep]_vars

----------------------------------------------------------------------------
(* Claims about rep. *)

(* C5: (which-Nat target base step) normalizes to the base when the target *)
(* is zero and to the step applied to the predecessor when the target is   *)
(* an add1; (which-Nat 1 2 (lambda (x) x)) to (the Nat zero) and           *)
(* (which-Nat 0 2 (lambda (x) x)) to (the Nat (add1 (add1 zero))).         *)
C5_WhichNat ==
  last.op = "rep" /\ last.prog.kind = "which-Nat" =>
    /\ last.prog.target = 0 => last.ret = CThe(CNat, NatCore(last.prog.base))
    /\ last.prog.target > 0 =>
         last.ret = CThe(CNat, NatCore(last.prog.step[last.prog.target]))
    /\ last.prog.src = WhichNat(NumericLiteral("1"), NumericLiteral("2"), StepId) =>
         last.ret = CThe(CNat, CZero)
    /\ last.prog.src = WhichNat(NumericLiteral("0"), NumericLiteral("2"), StepId) =>
         last.ret = CThe(CNat, two)

(* which-Nat on the target 2 with a step that adds one: the result is 2 *)
C5_Witness ==
  /\ last.op = "rep" /\ last.prog.kind = "which-Nat"
  /\ last.prog.target = 2 /\ last.prog.step = <<1, 2, 3>>
  /\ last.ret = CThe(CNat, two)

(* C6: a lambda with two parameters of the same name gets two distinct     *)
(* binders and its body is the inner one; for the name x the result is     *)
(* (the (Pi ((x Nat)) (Pi ((x₁ Nat)) Nat)) (λ (x) (λ (x₁) x₁))).  With two   *)
(* different names the body is the binder it names.                        *)
C6_TwoParameters ==
  last.op = "rep" /\ last.prog.kind = "lambda2" =>
    /\ last.ret.tag = "C.The"
    /\ last.ret.type = CPi(x, CNat, CPi(Sub("x", 1), CNat, CNat))
    /\ last.ret.expr.tag = "C.Lambda" /\ last.ret.expr.body.tag = "C.Lambda"
    /\ last.ret.expr.param = NameOf(last.prog.v)
    /\ last.ret.expr.param # last.ret.expr.body.param
    /\ last.prog.v = last.prog.w =>
         last.ret.expr.body.body = CVar(last.ret.expr.body.param)
    /\ last.prog.v # last.prog.w =>
         /\ last.ret.expr.body.param = NameOf(last.prog.w)
         /\ last.ret.expr.body.body = CVar(NameOf(last.prog.b))
    /\ last.prog.v = "x" /\ last.prog.w = "x" =>
         last.ret.expr = CLambda(x, CLambda(Sub("x", 1), CVar(Sub("x", 1))))

(* (the (-> Nat Nat Nat) (lambda (x x) x)) was given to rep *)
C6_Witness ==
  /\ last.op = "rep" /\ last.prog.kind = "lambda2"
  /\ last.prog.src = TwoParams("x", "x", "x")
  /\ last.ret.tag = "C.The"
  /\ last.ret.expr.body.param = Sub("x", 1)

(* C7, as stated: for every parameter name v, (the (-> Nat Nat) (λ (v) v)) *)
(* has the result (the (Pi ((x Nat)) Nat) (λ (v) v)).                      *)
C7_EveryName ==
  last.op = "rep" /\ last.prog.kind = "lambda1" =>
    last.ret = CThe(CPi(x, CNat, CNat),
                    CLambda(NameOf(last.prog.v), CVar(NameOf(last.prog.v))))

(* C7, amended: for every parameter name v that is a variable name (no     *)
(* word of the parser and no number), (the (-> Nat Nat) (λ (v) v)) has the *)
(* result (the (Pi ((x Nat)) Nat) (λ (v) v)): the binder of the type is x  *)
(* and the lambda keeps v.                                                 *)
C7_OneParameter ==
  last.op = "rep" /\ last.prog.kind = "lambda1" /\ isVarName(last.prog.v) =>
    last.ret = CThe(CPi(x, CNat, CNat),
                    CLambda(NameOf(last.prog.v), CVar(NameOf(last.prog.v))))

(* the parameter is my-var, another name than the binder of the type *)
C7_Witness ==
  /\ last.op = "rep" /\ last.prog.kind = "lambda1"
  /\ last.prog.v = "my-var"
  /\ last.ret.tag = "C.The"
  /\ last.ret.expr.param = Nm("my-var")

----------------------------------------------------------------------------
(* The normalization session: closed, well-typed core expressions are      *)
(* evaluated and read back at their type, and the normal form is evaluated *)
(* and read back again.                                                    *)

idX == CLambda(x, CVar(x))

(* (Pi ((x Nat)) Nat), the core of (-> Nat Nat) *)
ArrowCore == CPi(x, CNat, CNat)

(* steps of which-Nat and other functions from Nat to Nat *)
StepExprs == { idX, CLambda(x, CAdd1(CVar(x))), CLambda(n, NatCore(1)) }

(* closed expressions of type Nat *)
NatExprs ==
  { NatCore(0), NatCore(2), CCar(CCons(NatCore(1), CSole)) }
  \cup { CWhichNat(NatCore(p[1]), CThe(CNat, NatCore(p[2])), p[3]) :
           p \in {0, 1, 2} \X {0, 2} \X StepExprs }
  \cup { CApplication(CThe(ArrowCore, s), NatCore(1)) : s \in StepExprs }

(* closed expressions of type (Pi ((x Nat)) Nat) *)
FunExprs ==
  StepExprs
  \cup { CLambda(z, CWhichNat(CVar(z), CThe(CNat, NatCore(p[1])), p[2])) :
           p \in {0, 2} \X StepExprs }
  \cup { CLambda(y, CApplication(s, CVar(y))) : s \in StepExprs }

(* (Sigma ((x Nat)) (= Nat x x)) and (Sigma ((f (Pi ((x Nat)) Nat))) Trivial) *)
SigmaEqual == CSigma(x, CNat, CEqual(CNat, CVar(x), CVar(x)))
SigmaFun == CSigma(f, ArrowCore, CTrivial)

(* the expressions normalized, each with its type *)
NormInputs ==
  { [e |-> e, T |-> CNat] : e \in NatExprs }
  \cup { [e |-> e, T |-> ArrowCore] : e \in FunExprs }
  \cup { [e |-> CCons(e, CSame(e)), T |-> SigmaEqual] : e \in NatExprs }
  \cup { [e |-> CCons(e, CSole), T |-> SigmaFun] : e \in FunExprs }
  \cup { [e |-> CPi(x, CNat, CEqual(CNat, CVar(x), e)), T |-> CUniverse] : e \in NatExprs }
  \cup { [e |-> e, T |-> CUniverse] :
           e \in { CNat, ArrowCore, SigmaEqual, SigmaFun,
                   CPi(x, CNat, CPi(x, CNat, CEqual(CNat, CVar(x), CVar(x)))),
                   CPi(f, ArrowCore, CEqual(ArrowCore, CVar(f), idX)) } }
  \cup { [e |-> e, T |-> CPi(f, ArrowCore, ArrowCore)] :
           e \in { CLambda(f, CVar(f)),
                   CLambda(y, CLambda(x, CApplication(CVar(y), CAdd1(CVar(x))))) } }

(* the contexts the expressions are normalized in *)
NormCtxs == { EmptyCtx, bindFree(EmptyCtx, x, VNat), bindFree(EmptyCtx, f, VAtom) }

(* readBack(ctx, valOf(env, T), valOf(env, e)), env the environment of ctx *)
normalize(h, ctx, T, e) ==
  Then(valOf_(h, ctxToEnv(ctx), T), LAMBDA h1, tv :
  Then(valOf_(h1, ctxToEnv(ctx), e), LAMBDA h2, v :
    readBack_(h2, ctx, tv, v)))

(* the driver normalizes t.e at t.T in ctx *)
NormalizeCall(ctx, t) ==
  /\ last' = [op |-> "normalize", ctx |-> ctx, e |-> t.e, T |-> t.T,
              ret |-> normalize(heap, ctx, t.T, t.e).r]
  /\ heap' = normalize(heap, ctx, t.T, t.e).h
  /\ UNCHANGED <<delays, hist, thr, inp, freshCalls>>

(* the driver normalizes the normal form it got *)
RenormalizeCall ==
  /\ last.op = "normalize"
  /\ ~IsThrow(last.ret)
  /\ last' = [op |-> "renormalize", ctx |-> last.ctx, e |-> last.e, T |-> last.T,
              first |-> last.ret,
              ret |-> normalize(heap, last.ctx, last.T, last.ret).r]
  /\ heap' = normalize(heap, last.ctx, last.T, last.ret).h
  /\ UNCHANGED <<delays, hist, thr, inp, freshCalls>>

NextNorm ==
  \/ \E ctx \in NormCtxs, t \in NormInputs : NormalizeCall(ctx, t)
  \/ RenormalizeCall

SpecNorm == InitRep /\ [][NextNorm]_vars

(* C11: normalization is idempotent: a closed, well-typed e : T has a      *)
(* normal form readBack(ctx, T, valOf(env, e)), and evaluating that normal *)
(* form and reading it back at T again gives an expression that is         *)
(* alpha-equivalent to it.                                                 *)
C11_NormalizeIdempotent ==
  /\ last.op = "normalize" => ~IsThrow(last.ret)
  /\ last.op = "renormalize" =>
       ~IsThrow(last.ret) /\ alphaEquiv(last.ret, last.first)

(* a which-Nat under a binder was reduced, its binder was renamed, and the *)
(* normal form was normalized again                                        *)
C11_Witness ==
  /\ last.op = "renormalize"
  /\ last.ctx = bindFree(EmptyCtx, x, VNat)
  /\ last.e = CPi(x, CNat, CEqual(CNat, CVar(x),
                                  CWhichNat(NatCore(1), CThe(CNat, NatCore(2)), idX)))
  /\ last.first = CPi(Sub("x", 1), CNat, CEqual(CNat, CVar(Sub("x", 1)), CZero))
  /\ last.ret = last.first

----------------------------------------------------------------------------
(* The eta session: values are read back at a type in a context that binds *)
(* the free variables they are stuck on.                                   *)

g == Nm("g")
pr == Nm("p")
hf == Nm("hf")

(* (Pi ((x Nat)) (Pi ((y Nat)) Nat)) *)
ArrowNNN == VPi(x, VNat, Closure(EmptyEnv, x, CPi(y, CNat, CNat)))

(* (Sigma ((f (-> Nat Nat))) Trivial) *)
SigmaFunValue == VSigma(f, ArrowNN, Closure(EmptyEnv, f, CTrivial))

(* (Pi ((f (-> Nat Nat))) Nat) *)
ArrowFunN == VPi(f, ArrowNN, Closure(EmptyEnv, f, CNat))

(* f, x : (-> Nat Nat), g : (-> Nat Nat Nat), p : a pair of a function and *)
(* sole, hf : (-> (-> Nat Nat) Nat) and n : Nat are free                   *)
EtaBase ==
  << Free(f, ArrowNN), Free(x, ArrowNN), Free(g, ArrowNNN),
     Free(pr, SigmaFunValue), Free(hf, ArrowFunN), Free(n, VNat) >>

(* the names a context may bind on top of them *)
EtaExtra == << y, Sub("x", 1), Sub("y", 1), Sub("f", 1) >>

(* the contexts: EtaBase under any of the extra names, bound at Nat *)
RECURSIVE EtaUnder(_, _)
EtaUnder(s, i) ==
  IF i > Len(EtaExtra) THEN EtaBase
  ELSE IF i \in s THEN bindFree(EtaUnder(s, i + 1), EtaExtra[i], VNat)
  ELSE EtaUnder(s, i + 1)

EtaCtxs == { EtaUnder(s, 1) : s \in SUBSET DOMAIN EtaExtra }

(* box 1 holds a type that was forced, box 2 the closure of a type, box 3  *)
(* the closure of a stuck function                                         *)
EtaHeap ==
  << NewBox(ArrowNN),
     NewBox(DelayClosure(EmptyEnv, CPi(z, CNat, CNat))),
     NewBox(DelayClosure(extendEnv(EmptyEnv, k, NeutralF), CThe(CNat, CVar(k)))) >>

(* what is read back: the type, the value, the expression of the spine the *)
(* value is stuck on (NoValue for a value that is no Neutral), and the     *)
(* number of arguments, all of them Nat, the type takes (0: the type is no *)
(* Pi of that kind)                                                        *)
EtaInputs ==
  { [type |-> ArrowNN, value |-> NeutralF, bare |-> CVar(f), arity |-> 1],
    [type |-> ArrowNN, value |-> VNeutral(ArrowNN, NVariable(x)),
     bare |-> CVar(x), arity |-> 1],
    [type |-> ArrowNNN, value |-> VNeutral(ArrowNNN, NVariable(g)),
     bare |-> CVar(g), arity |-> 2],
    [type |-> ArrowNN,
     value |-> VNeutral(ArrowNN, NApplication(NVariable(g), Norm(VNat, VZero))),
     bare |-> CApplication(CVar(g), CZero), arity |-> 1],
    [type |-> ArrowNN, value |-> VNeutral(ArrowNN, NCar(NVariable(pr))),
     bare |-> CCar(CVar(pr)), arity |-> 1],
    [type |-> VDelay(1), value |-> NeutralF, bare |-> CVar(f), arity |-> 1],
    [type |-> VDelay(2), value |-> NeutralF, bare |-> CVar(f), arity |-> 1],
    [type |-> ArrowNN, value |-> VDelay(3), bare |-> CVar(f), arity |-> 1],
    [type |-> VDelay(2), value |-> VDelay(3), bare |-> CVar(f), arity |-> 1],
    [type |-> ArrowFunN, value |-> VNeutral(ArrowFunN, NVariable(hf)),
     bare |-> CVar(hf), arity |-> 0],
    [type |-> ArrowNN, value |-> VLambda(y, Closure(EmptyEnv, y, CAdd1(CVar(y)))),
     bare |-> NoValue, arity |-> 1],
    [type |-> VNat, value |-> VNeutral(VNat, NVariable(n)),
     bare |-> CVar(n), arity |-> 0] }

(* readBack(ctx, t.type, t.value); pi is history: the type, forced, is a Pi *)
EtaReadBack(ctx, t) ==
  /\ last' = [op |-> "readBack", ctx |-> ctx, type |-> t.type, value |-> t.value,
              bare |-> t.bare, arity |-> t.arity,
              pi |-> now(heap, t.type).r.tag = "Pi",
              ret |-> readBack(heap, ctx, t.type, t.value).r]
  /\ heap' = readBack(heap, ctx, t.type, t.value).h
  /\ UNCHANGED <<delays, hist, thr, inp, freshCalls>>

InitEta ==
  /\ heap = EtaHeap
  /\ delays = <<VDelay(1), VDelay(2), VDelay(3)>>
  /\ hist = <<NewHist(1), NewHist(2), NewHist(3)>>
  /\ last = NoCall
  /\ thr = [t \in {1, 2} |-> Idle]
  /\ inp = NoValue
  /\ freshCalls = 0

NextEta == \E ctx \in EtaCtxs, t \in EtaInputs : EtaReadBack(ctx, t)

SpecEta == InitEta /\ [][NextEta]_vars

(* the parameters of the lambdas at the top of e, the outermost first *)
RECURSIVE LambdaParams(_)
LambdaParams(e) ==
  IF e.tag = "C.Lambda" THEN <<e.param>> \o LambdaParams(e.body) ELSE <<>>

(* e is head applied to the parameters of the lambdas at the top of e *)
RECURSIVE EtaLong(_, _)
EtaLong(e, head) ==
  IF e.tag = "C.Lambda" THEN EtaLong(e.body, CApplication(head, CVar(e.param)))
  ELSE e = head

(* C12: read-back at a Pi type gives a lambda at the top, over a name the  *)
(* context does not bind; a Neutral value of function type is read back as *)
(* the lambda whose body applies the neutral to that variable (one lambda  *)
(* for each argument the type takes), never as the bare neutral.           *)
C12_EtaAtPi ==
  last.op = "readBack" /\ last.pi =>
    /\ last.ret.tag = "C.Lambda"
    /\ last.ret.param \notin Names(last.ctx)
    /\ last.bare # NoValue => last.ret # last.bare
    /\ last.bare # NoValue /\ last.arity > 0 =>
         /\ Len(LambdaParams(last.ret)) = last.arity
         /\ \A i \in 1..last.arity : \A j \in 1..last.arity :
              /\ LambdaParams(last.ret)[i] \notin Names(last.ctx)
              /\ i # j => LambdaParams(last.ret)[i] # LambdaParams(last.ret)[j]
         /\ EtaLong(last.ret, last.bare)

(* the stuck variable x of type (Pi ((x Nat)) Nat), read back where x and  *)
(* x_1 are bound, is (lambda (x_2) (x x_2))                                *)
C12_Witness ==
  /\ last.op = "readBack" /\ last.pi
  /\ last.value = VNeutral(ArrowNN, NVariable(x))
  /\ Sub("x", 1) \in Names(last.ctx)
  /\ last.ret = CLambda(Sub("x", 2), CApplication(CVar(x), CVar(Sub("x", 2))))

----------------------------------------------------------------------------
(* The checking session: expressions are parsed and judged, by synthesize  *)
(* or by check against an expected type, in a context whose variables have *)
(* types that are partly still delayed.                                    *)

q == Nm("q")

(* (Sigma ((a Nat)) Nat), the core of (Pair Nat Nat) *)
PairCore == CSigma(Nm("a"), CNat, CNat)
PairNN == VSigma(Nm("a"), VNat, Closure(EmptyEnv, Nm("a"), CNat))

(* box 1 holds the closure of the type of p, box 2 that of the type of q *)
CheckHeap ==
  << NewBox(DelayClosure(EmptyEnv, PairCore)), NewBox(DelayClosure(EmptyEnv, CNat)) >>

(* p : (Pair Nat Nat) and q : Nat with delayed types, f : (-> Nat Nat),    *)
(* g : (-> Nat Nat Nat), n : Nat                                           *)
CheckCtx ==
  << Free(pr, VDelay(1)), Free(q, VDelay(2)), Free(f, ArrowNN), Free(g, ArrowNNN),
     Free(n, VNat) >>

(* the form (word args...) *)
Form(word, args) == List(<<Symbol(word)>> \o args)

PairText == Form("Pair", <<Symbol("Nat"), Symbol("Nat")>>)

(* (the (Pair Nat Nat) (cons 1 2)) *)
ThePair ==
  Form("the", <<PairText, Form("cons", <<NumericLiteral("1"), NumericLiteral("2")>>)>>)

(* (car 1), rejected with EliminatorTargetMismatch *)
CarOne == Form("car", <<NumericLiteral("1")>>)

(* targets of car: head is the head of the type synthesized for the        *)
(* target, none when nothing is synthesized                                *)
CarTargets ==
  { [src |-> Symbol("zero"), head |-> "Nat"],
    [src |-> Form("the", <<Symbol("Nat"), NumericLiteral("1")>>), head |-> "Nat"],
    [src |-> Symbol("n"), head |-> "Nat"],
    [src |-> Symbol("q"), head |-> "Nat"],
    [src |-> Symbol("f"), head |-> "Pi"],
    [src |-> Form("the", <<Arrow1, StepId>>), head |-> "Pi"],
    [src |-> Form("g", <<NumericLiteral("1")>>), head |-> "Pi"],
    [src |-> Symbol("Nat"), head |-> "U"],
    [src |-> PairText, head |-> "U"],
    [src |-> Form("f", <<NumericLiteral("1")>>), head |-> "Nat"],
    [src |-> WhichNat(NumericLiteral("1"), NumericLiteral("2"), StepId), head |-> "Nat"],
    [src |-> Form("car", <<Symbol("p")>>), head |-> "Nat"],
    [src |-> Form("cdr", <<ThePair>>), head |-> "Nat"],
    [src |-> Symbol("p"), head |-> "Sigma"],
    [src |-> ThePair, head |-> "Sigma"],
    [src |-> Form("the", <<Form("Pair", <<PairText, Symbol("Nat")>>),
                           Form("cons", <<Symbol("p"), Symbol("q")>>)>>),
     head |-> "Sigma"],
    [src |-> Form("car", <<Form("the", <<Form("Pair", <<PairText, Symbol("Nat")>>),
                                         Form("cons", <<Symbol("p"), Symbol("q")>>)>>)>>),
     head |-> "Sigma"],
    [src |-> Symbol("y"), head |-> "none"],
    [src |-> StepId, head |-> "none"],
    [src |-> CarOne, head |-> "none"] }

CarPrograms ==
  { [kind |-> "car", src |-> Form("car", <<t.src>>), head |-> t.head, expected |-> NoValue] :
      t \in CarTargets }

(* the judgment returned res; before and after are the heap around it *)
JudgeDone(prog, parsed, res) ==
  /\ heap' = res.h
  /\ last' = [op |-> IF prog.expected = NoValue THEN "synth" ELSE "check",
              prog |-> prog, parsed |-> parsed, ret |-> res.r,
              before |-> heap, after |-> res.h]
  /\ UNCHANGED <<delays, hist, thr, inp, freshCalls>>

(* synthesize(CheckCtx, Parser.parsePie(src)) *)
SynthCall(prog) ==
  /\ prog.expected = NoValue
  /\ IF IsThrow(parseElements(prog.src))
     THEN JudgeDone(prog, parseElements(prog.src), Ret(heap, parseElements(prog.src)))
     ELSE JudgeDone(prog, parseElements(prog.src),
                    synth(heap, CheckCtx, <<>>, parseElements(prog.src)))

(* check(CheckCtx, Parser.parsePie(src), expected) *)
CheckCall(prog) ==
  /\ prog.expected # NoValue
  /\ IF IsThrow(parseElements(prog.src))
     THEN JudgeDone(prog, parseElements(prog.src), Ret(heap, parseElements(prog.src)))
     ELSE JudgeDone(prog, parseElements(prog.src),
                    check(heap, CheckCtx, <<>>, parseElements(prog.src), prog.expected))

InitCheck ==
  /\ heap = CheckHeap
  /\ delays = <<VDelay(1), VDelay(2)>>
  /\ hist = <<NewHist(1), NewHist(2)>>
  /\ last = NoCall
  /\ thr = [t \in {1, 2} |-> Idle]
  /\ inp = NoValue
  /\ freshCalls = 0

(* (lambda (x) e) *)
LambdaX(e) == Form("lambda", <<List(<<Symbol("x")>>), e>>)

(* expressions with a failing sub-expression: err is the error of the      *)
(* first sub-expression that fails, earlier the boxes the sub-expressions  *)
(* before it force, later the boxes only the ones after it would force     *)
SiblingPrograms ==
  { [kind |-> "siblings", src |-> t[1], expected |-> t[2], err |-> t[3],
     earlier |-> t[4], later |-> t[5]] :
      t \in { <<WhichNat(CarOne, Symbol("q"), StepId), NoValue,
                "EliminatorTargetMismatch", {}, {2}>>,
              <<WhichNat(Symbol("y"), Form("car", <<Symbol("p")>>), StepId), NoValue,
                "UnboundVariable", {}, {1}>>,
              <<WhichNat(Symbol("q"), Form("car", <<Symbol("zero")>>),
                         LambdaX(Form("cdr", <<Symbol("p")>>))), NoValue,
                "EliminatorTargetMismatch", {2}, {1}>>,
              <<Form("the", <<CarOne, Symbol("p")>>), NoValue,
                "EliminatorTargetMismatch", {}, {1}>>,
              <<Form("g", <<Symbol("TODO"), Symbol("q")>>), NoValue,
                "IncompleteTerm", {}, {2}>>,
              <<Form("g", <<Symbol("q"), CarOne>>), NoValue,
                "EliminatorTargetMismatch", {2}, {1}>>,
              <<Form("the", <<PairText, Form("cons", <<CarOne, Symbol("q")>>)>>), NoValue,
                "EliminatorTargetMismatch", {}, {2}>>,
              <<Form("the", <<PairText, Form("cons", <<Symbol("q"),
                                                     Form("cdr", <<Symbol("f")>>)>>)>>),
                NoValue, "EliminatorTargetMismatch", {2}, {1}>>,
              <<Form("add1", <<CarOne>>), NoValue,
                "EliminatorTargetMismatch", {}, {1, 2}>>,
              <<Form("->", <<CarOne, Symbol("q")>>), NoValue,
                "EliminatorTargetMismatch", {}, {2}>>,
              <<WhichNat(Symbol("y"), CarOne, Symbol("TODO")), NoValue,
                "UnboundVariable", {}, {1, 2}>>,
              <<Form("car", <<WhichNat(CarOne, Symbol("q"), StepId)>>), NoValue,
                "EliminatorTargetMismatch", {}, {2}>>,
              <<Form("f", <<Form("f", <<Form("car", <<Symbol("q")>>)>>)>>), NoValue,
                "EliminatorTargetMismatch", {2}, {1}>>,
              <<Form("cons", <<CarOne, Symbol("q")>>), PairNN,
                "EliminatorTargetMismatch", {}, {2}>>,
              <<Form("cons", <<Symbol("q"), Symbol("p")>>), VDelay(1),
                "TypeMismatch", {1, 2}, {}>>,
              <<LambdaX(WhichNat(Symbol("y"), Symbol("q"), Symbol("x"))), ArrowNN,
                "UnboundVariable", {}, {2}>> } }

(* expressions that are accepted *)
AcceptedPrograms ==
  { [kind |-> "accepted", src |-> t[1], expected |-> t[2]] :
      t \in { <<WhichNat(NumericLiteral("1"), Symbol("q"), StepId), NoValue>>,
              <<Form("g", <<Symbol("q"), Symbol("q")>>), NoValue>>,
              <<Form("the", <<PairText, Form("cons", <<Symbol("q"), Symbol("q")>>)>>),
                NoValue>>,
              <<Form("cons", <<Symbol("q"), Form("car", <<Symbol("p")>>)>>), PairNN>>,
              <<Symbol("p"), PairNN>>,
              <<StepId, ArrowNN>> } }

(* expressions that hold a TODO: first is TODO when the judgment reaches   *)
(* the TODO before anything else fails, else the error that comes first    *)
TodoPrograms ==
  { [kind |-> "todo", src |-> t[1], expected |-> t[2], first |-> t[3]] :
      t \in { <<Symbol("TODO"), NoValue, "TODO">>,
              <<Form("the", <<Symbol("Nat"), Symbol("TODO")>>), NoValue, "TODO">>,
              <<Form("the", <<Symbol("TODO"), NumericLiteral("1")>>), NoValue, "TODO">>,
              <<Form("add1", <<Symbol("TODO")>>), NoValue, "TODO">>,
              <<WhichNat(Symbol("TODO"), NumericLiteral("1"), StepId), NoValue, "TODO">>,
              <<WhichNat(NumericLiteral("1"), Symbol("TODO"), StepId), NoValue, "TODO">>,
              <<WhichNat(NumericLiteral("1"), NumericLiteral("2"), Symbol("TODO")),
                NoValue, "TODO">>,
              <<Form("f", <<Symbol("TODO")>>), NoValue, "TODO">>,
              <<Form("g", <<NumericLiteral("1"), Symbol("TODO")>>), NoValue, "TODO">>,
              <<Form("car", <<Symbol("TODO")>>), NoValue, "TODO">>,
              <<Form("cdr", <<Symbol("TODO")>>), NoValue, "TODO">>,
              <<Form("the", <<Arrow1, LambdaX(Symbol("TODO"))>>), NoValue, "TODO">>,
              <<Form("the", <<PairText, Form("cons", <<NumericLiteral("1"),
                                                     Symbol("TODO")>>)>>),
                NoValue, "TODO">>,
              <<Form("the", <<PairText, Form("cons", <<Symbol("TODO"),
                                                     NumericLiteral("1")>>)>>),
                NoValue, "TODO">>,
              <<Form("->", <<Symbol("TODO"), Symbol("Nat")>>), NoValue, "TODO">>,
              <<Form("->", <<Symbol("Nat"), Symbol("TODO")>>), NoValue, "TODO">>,
              <<Form("Pair", <<Symbol("Nat"), Symbol("TODO")>>), NoValue, "TODO">>,
              <<Form("TODO", <<NumericLiteral("1"), NumericLiteral("2")>>), NoValue, "TODO">>,
              <<WhichNat(CarOne, Symbol("TODO"), StepId), NoValue,
                "EliminatorTargetMismatch">>,
              <<Form("y", <<Symbol("TODO")>>), NoValue, "UnboundVariable">>,
              <<Form("n", <<Symbol("TODO")>>), NoValue, "NotAFunctionType">>,
              <<LambdaX(Symbol("TODO")), NoValue, "CantDetermineType">>,
              <<Form("cons", <<Symbol("TODO"), NumericLiteral("1")>>), NoValue,
                "CantDetermineType">>,
              <<Form("the", <<Symbol("Nat"), LambdaX(Symbol("TODO"))>>), NoValue,
                "NotAFunctionType">>,
              <<Form("the", <<Arrow1, Form("cons", <<Symbol("TODO"), Symbol("n")>>)>>),
                NoValue, "TypeMismatch">>,
              <<Symbol("TODO"), VNat, "TODO">>,
              <<Symbol("TODO"), ArrowNN, "TODO">>,
              <<Symbol("TODO"), VUniverse, "TODO">>,
              <<Symbol("TODO"), PairNN, "TODO">>,
              <<Symbol("TODO"), VDelay(1), "TODO">>,
              <<LambdaX(Symbol("TODO")), ArrowNN, "TODO">>,
              <<LambdaX(Symbol("TODO")), VNat, "NotAFunctionType">>,
              <<LambdaX(Symbol("TODO")), VDelay(2), "NotAFunctionType">>,
              <<Form("cons", <<Symbol("TODO"), NumericLiteral("1")>>), PairNN, "TODO">>,
              <<Form("cons", <<NumericLiteral("1"), Symbol("TODO")>>), VDelay(1), "TODO">>,
              <<Form("cons", <<Symbol("TODO"), NumericLiteral("1")>>), VNat,
                "TypeMismatch">>,
              <<Form("add1", <<Symbol("TODO")>>), ArrowNN, "TODO">> } }

CheckPrograms == CarPrograms \cup SiblingPrograms \cup AcceptedPrograms \cup TodoPrograms

NextCheck ==
  \/ \E prog \in CheckPrograms : SynthCall(prog)
  \/ \E prog \in CheckPrograms : CheckCall(prog)

SpecCheck == InitCheck /\ [][NextCheck]_vars

(* C13: car of an expression whose synthesized type is not a Sigma is      *)
(* rejected with EliminatorTargetMismatch, and nothing else is returned.   *)
C13_CarOfNonSigma ==
  last.op = "synth" /\ last.prog.kind = "car" /\ last.prog.head \notin {"Sigma", "none"} =>
    last.ret = Stop("EliminatorTargetMismatch")

(* the target is itself a car that is accepted: (car (car p)) *)
C13_Witness ==
  /\ last.op = "synth" /\ last.prog.kind = "car"
  /\ last.prog.src = Form("car", <<Form("car", <<Symbol("p")>>)>>)
  /\ last.parsed = makeCar(makeCar(makeVarRef("p")))
  /\ last.ret = Stop("EliminatorTargetMismatch")

(* C14: a type error in a sub-expression is the outcome of the enclosing   *)
(* expression: the judgment stops at the first sub-expression that fails   *)
(* and returns its error and nothing else, and the sub-expressions after   *)
(* it are not judged (the delayed types only they refer to are not         *)
(* forced).                                                                *)
C14_FirstErrorStops ==
  last.op \in {"synth", "check"} /\ last.prog.kind = "siblings" =>
    /\ last.ret = Stop(last.prog.err)
    /\ \A b \in last.prog.later : last.after[b] = last.before[b]

(* the target of a which-Nat was judged and forced the type of q, the base *)
(* failed, and the type of p, which only the step refers to, is unforced   *)
C14_Witness ==
  /\ last.op = "synth" /\ last.prog.kind = "siblings"
  /\ last.prog.earlier = {2} /\ last.prog.later = {1}
  /\ last.parsed.tag = "S.WhichNat"
  /\ last.before[2].content.tag = "DelayClosure"
  /\ last.after[2].content = VNat
  /\ last.after[1].content.tag = "DelayClosure"
  /\ last.ret = Stop("EliminatorTargetMismatch")

----------------------------------------------------------------------------
(* The non-type session: values that are no types are read back as types,  *)
(* directly, through a Delay and inside a type.                            *)

(* box 1 holds the closure of zero, box 2 a forced value that is no type,  *)
(* box 3 the closure of a type                                             *)
NonTypeHeap ==
  << NewBox(DelayClosure(EmptyEnv, CZero)),
     NewBox(VQuote(Nm("a"))),
     NewBox(DelayClosure(EmptyEnv, CPi(x, CNat, CNat))) >>

(* one value of every class whose readBackType throws *)
NonTypes ==
  { VQuote(Nm("a")), VAdd1(VZero), VZero, VLambda(x, Closure(EmptyEnv, x, CVar(x))),
    VCons(VZero, VSole), VListCons(VZero, VNil), VNil, VSame(VZero),
    VVecCons(VZero, VVecNil), VVecNil, VLeft(VZero), VRight(VSole), VSole }

(* a non-type where a type is expected: itself, behind a Delay, or as a    *)
(* part of a type                                                          *)
NonTypeValues ==
  NonTypes
  \cup { VDelay(1), VDelay(2) }
  \cup { VList(v) : v \in NonTypes }
  \cup { VPi(x, VNat, Closure(EmptyEnv, x, CZero)),
         VSigma(x, VDelay(1), Closure(EmptyEnv, x, CNat)),
         VEither(VDelay(3), VDelay(2)) }

NonTypeInputs ==
  { [v |-> v, free |-> {}] : v \in NonTypeValues \cup { VNat, VDelay(3), VList(VAtom) } }

InitNonType ==
  /\ heap = NonTypeHeap
  /\ delays = <<VDelay(1), VDelay(2), VDelay(3)>>
  /\ hist = <<NewHist(1), NewHist(2), NewHist(3)>>
  /\ last = NoCall
  /\ thr = [t \in {1, 2} |-> Idle]
  /\ inp = EmptyCtx
  /\ freshCalls = 0

NextNonType ==
  \/ \E name \in {x, y} : Enter(name, VNat)
  \/ Leave
  \/ \E t \in NonTypeInputs : ReadBackTypeCall(t)

SpecNonType == InitNonType /\ [][NextNonType]_vars

(* C15: reading back as a type a value that is no type (a Quote, Add1,     *)
(* Zero, Lambda, Cons, ListCons, Nil, Same, VecCons, VecNil, Left, Right   *)
(* or Sole, directly or after forcing a Delay) is reported as the error    *)
(* value NotAUniverse, not as an exception.                                *)
C15_NotAUniverseValue ==
  last.op = "readBackType" /\ last.v \in NonTypeValues =>
    last.ret = Stop("NotAUniverse")

----------------------------------------------------------------------------
(* The context session: the context in force, inp, grows as the checker    *)
(* and read-back grow it, by binding the name fresh gives for a hint, and  *)
(* by definitions at the top level; types with binders are read back in    *)
(* it.                                                                     *)

(* (Pi ((x Nat)) (= Nat x x)) *)
PiSame == VPi(x, VNat, Closure(EmptyEnv, x, CEqual(CNat, CVar(x), CVar(x))))

(* (Sigma ((x Nat)) (= Nat x k)), k the free variable x *)
SigmaFree == VSigma(x, VNat, Closure(envX, x, CEqual(CNat, CVar(x), CVar(k))))

(* (Pi ((x (Pi ((x Nat)) Nat))) (Pi ((x Nat)) Nat)) *)
PiNested == VPi(x, ArrowNN, Closure(EmptyEnv, x, CPi(x, CNat, CNat)))

(* (Sigma ((y D)) Atom), D the delayed type (Pi ((x Nat)) (= Nat x k)) *)
SigmaDelayed == VSigma(y, VDelay(1), Closure(EmptyEnv, y, CAtom))

(* (Pi ((x_1 Nat)) (= Nat x_1 zero)) *)
PiSub ==
  VPi(Sub("x", 1), VNat,
      Closure(EmptyEnv, Sub("x", 1), CEqual(CNat, CVar(Sub("x", 1)), CZero)))

(* (Pi ((f (Pi ((x Nat)) Nat))) (= (Pi ((x Nat)) Nat) f f)) *)
PiOverFun ==
  VPi(f, ArrowNN, Closure(EmptyEnv, f, CEqual(ArrowCore, CVar(f), CVar(f))))

(* (Pi ((x Nat)) zero): the result is no type *)
PiNoType == VPi(x, VNat, Closure(EmptyEnv, x, CZero))

BinderInputs ==
  { [v |-> PiSame, free |-> {}],
    [v |-> SigmaFree, free |-> {x}],
    [v |-> PiNested, free |-> {}],
    [v |-> SigmaDelayed, free |-> {x}],
    [v |-> PiSub, free |-> {}],
    [v |-> PiOverFun, free |-> {}],
    [v |-> PiNoType, free |-> {}],
    [v |-> VEither(PiSame, PiSame), free |-> {}],
    [v |-> VEither(PiNested, VList(SigmaFree)), free |-> {x}],
    [v |-> VEither(PiNoType, PiSame), free |-> {}] }

(* the checker or read-back goes under a binder named by hint:             *)
(* bindFree(ctx, fresh(ctx, hint), type), as in value.ts 130-131           *)
EnterFresh(hint, type) ==
  /\ Len(inp) < MaxCtx
  /\ inp' = bindFree(inp, fresh(inp, hint), type)
  /\ UNCHANGED <<heap, delays, hist, last, thr, freshCalls>>

NextCtx ==
  \/ \E hint \in {x, y} : EnterFresh(hint, VNat)
  \/ Define(x, VAtom, VQuote(Nm("a")))
  \/ Leave
  \/ \E t \in BinderInputs : ReadBackTypeCall(t)

SpecCtx == InitReadBack /\ [][NextCtx]_vars

(* the names of a context, the most recent first *)
NamesOf(ctx) == [i \in DOMAIN ctx |-> ctx[i].name]

DistinctNames(s) == \A i \in DOMAIN s : \A j \in DOMAIN s : i # j => s[i] # s[j]

(* the names of the contexts read-back built on the way to e from a        *)
(* context of the names s: one context for every binder of e               *)
RECURSIVE Extended(_, _)
Extended(s, e) ==
  CASE e.tag \in {"C.Pi", "C.Sigma"} ->
         {<<e.name>> \o s} \cup Extended(s, e.type) \cup Extended(<<e.name>> \o s, e.body)
    [] e.tag = "C.Lambda" -> {<<e.param>> \o s} \cup Extended(<<e.param>> \o s, e.body)
    [] e.tag = "C.Equal" ->
         Extended(s, e.type) \cup Extended(s, e.from) \cup Extended(s, e.to)
    [] e.tag = "C.Either" -> Extended(s, e.left) \cup Extended(s, e.right)
    [] e.tag = "C.List" -> Extended(s, e.entryType)
    [] OTHER -> {}

(* C17: every context reached by extensions binds pairwise distinct names: *)
(* the context in force, grown by bindings of fresh names and by           *)
(* definitions, and the contexts Pi.readBackType, Sigma.readBackType and   *)
(* read-back at a Pi build from it with bindFree.                          *)
C17_NamesDistinct ==
  /\ DistinctNames(NamesOf(inp))
  /\ last.op = "readBackType" /\ ~IsThrow(last.ret) =>
       /\ DistinctNames(NamesOf(last.ctx))
       /\ \A s \in Extended(NamesOf(last.ctx), last.ret) : DistinctNames(s)

(* x was bound twice, as x and x_1, and a type with two nested binders     *)
(* named x was read back there: four names, all distinct                   *)
C17_Witness ==
  /\ NamesOf(inp) = <<Sub("x", 1), x>>
  /\ last.op = "readBackType" /\ last.ctx = inp /\ last.v = PiNested
  /\ <<Sub("x", 3), Sub("x", 2), Sub("x", 1), x>> \in Extended(NamesOf(inp), last.ret)

(* the first of hint, hint + 1, ... (in the subscript) that is not used *)
Least(used, hint) ==
  Sub(hint[1],
      CHOOSE i \in hint[2]..(hint[2] + Cardinality(used)) :
        /\ Sub(hint[1], i) \notin used
        /\ \A j \in hint[2]..(i - 1) : Sub(hint[1], j) \in used)

(* what the binder types above are read back as where the names used are   *)
(* bound: written out by hand                                              *)
ExpectedOf(v, used) ==
  CASE v = PiSame ->
         CPi(Least(used, x), CNat,
             CEqual(CNat, CVar(Least(used, x)), CVar(Least(used, x))))
    [] v = SigmaFree ->
         CSigma(Least(used, x), CNat, CEqual(CNat, CVar(Least(used, x)), CVar(x)))
    [] v = PiNested ->
         CPi(Least(used, x), CPi(Least(used, x), CNat, CNat),
             CPi(Least(used \cup {Least(used, x)}, x), CNat, CNat))
    [] v = SigmaDelayed ->
         CSigma(Least(used, y),
                CPi(Least(used, x), CNat, CEqual(CNat, CVar(Least(used, x)), CVar(x))),
                CAtom)
    [] v = PiSub ->
         CPi(Least(used, Sub("x", 1)), CNat,
             CEqual(CNat, CVar(Least(used, Sub("x", 1))), CZero))
    [] v = PiOverFun ->
         CPi(Least(used, f), CPi(Least(used, x), CNat, CNat),
             CEqual(CPi(Least(used, x), CNat, CNat),
                    CLambda(Least(used, x),
                            CApplication(CVar(Least(used, f)), CVar(Least(used, x)))),
                    CLambda(Least(used, x),
                            CApplication(CVar(Least(used, f)), CVar(Least(used, x))))))

BinderValues == { PiSame, SigmaFree, PiNested, SigmaDelayed, PiSub, PiOverFun }

(* C19: readBackType does not modify the context it is given: after        *)
(* Pi.readBackType or Sigma.readBackType returned, the caller's context    *)
(* binds the names it bound before, so the next type the caller reads back *)
(* in it (the right side of an Either) comes out as it does there on its   *)
(* own; when it fails, the caller fails with it; the context in force is   *)
(* the one of the call in both cases.                                      *)
C19_ContextUnchanged ==
  [][last' # last /\ last'.op = "readBackType" =>
       /\ inp' = inp
       /\ last'.ctx = inp
       /\ last'.v = VEither(PiSame, PiSame) =>
            last'.ret = CEither(ExpectedOf(PiSame, Names(inp)),
                                ExpectedOf(PiSame, Names(inp)))
       /\ last'.v = VEither(PiNested, VList(SigmaFree)) =>
            last'.ret = CEither(ExpectedOf(PiNested, Names(inp)),
                                CList(ExpectedOf(SigmaFree, Names(inp))))
       /\ last'.v = VEither(PiNoType, PiSame) => IsThrow(last'.ret)]_vars

(* both sides of an Either were read back where x is bound: each binds x_1 *)
C19_Witness ==
  /\ last.op = "readBackType" /\ last.v = VEither(PiNested, VList(SigmaFree))
  /\ NamesOf(last.ctx) = <<y, x>>
  /\ last.ctx[2].binder = "Definition"
  /\ last.ret.left.name = Sub("x", 1)
  /\ last.ret.left.body.name = Sub("x", 2)
  /\ last.ret.right.entryType.name = Sub("x", 1)

(* C20: Pi.readBackType and Sigma.readBackType return a binder node: its   *)
(* name is the fresh name n made from the type's own argName (carName),    *)
(* its domain the argument (car) type read back in the original context,   *)
(* its body the read-back, where n is bound too, of the result (cdr)       *)
(* closure applied to the neutral variable n of the argument type.         *)
C20_BinderNode ==
  last.op = "readBackType" /\ last.v \in BinderValues =>
    last.ret = ExpectedOf(last.v, Names(last.ctx))

(* the domain of the delayed type is read back where x is bound and y is   *)
(* not: the binder is y, and the binder inside the domain is x_1           *)
C20_Witness ==
  /\ last.op = "readBackType" /\ last.v = SigmaDelayed
  /\ Names(last.ctx) = {x, Sub("x", 1)}
  /\ last.ret = CSigma(y, CPi(Sub("x", 2), CNat,
                                 CEqual(CNat, CVar(Sub("x", 2)), CVar(x))), CAtom)

----------------------------------------------------------------------------
(* The environment session: the evaluator's environment in force, inp, is  *)
(* extended binding by binding; expressions are delayed over it (a         *)
(* DelayClosure keeps env) and functions are made in it (a Closure keeps   *)
(* env); later they are forced and applied, and names are looked up.       *)

BoundNames == { x, y }

BoundValues == { VZero, VAdd1(VZero) }

(* what is captured: free is the variable the expression mentions that it  *)
(* does not bind itself                                                    *)
Captured ==
  { [e |-> CAdd1(CVar(x)), free |-> {x}],
    [e |-> CLambda(y, CVar(x)), free |-> {x}],
    [e |-> CLambda(x, CVar(x)), free |-> {x}] }

(* the value of the binding of name that was made last, by position *)
Nearest(env, name) ==
  IF \A i \in DOMAIN env : env[i].name # name THEN Throw("unbound")
  ELSE env[CHOOSE i \in DOMAIN env :
             /\ env[i].name = name
             /\ \A j \in 1..(i - 1) : env[j].name # name].value

(* the evaluator goes on in the environment extended with (name, value) *)
Extend(name, value) ==
  /\ Len(inp) < MaxCtx
  /\ inp' = extendEnv(inp, name, value)
  /\ last' = [op |-> "extend", name |-> name, value |-> value, before |-> inp,
              after |-> extendEnv(inp, name, value)]
  /\ UNCHANGED <<heap, delays, hist, thr, freshCalls>>

(* new Delay(new Box(new DelayClosure(inp, c.e))); seen is history: what   *)
(* x denotes where the expression is captured                              *)
Capture(c) ==
  /\ Len(heap) < MaxBoxes /\ Len(delays) < MaxDelays
  /\ c.free \subseteq { inp[i].name : i \in DOMAIN inp }
  /\ LET d == NewDelay(Append(heap, NewBox(DelayClosure(inp, c.e))), Len(heap) + 1)
     IN  /\ heap' = d.h
         /\ delays' = Append(delays, d.r)
  /\ hist' = Append(hist, [group |-> Len(delays) + 1, called |-> FALSE,
                           ret |-> NoValue, expr |-> c.e,
                           seen |-> Nearest(inp, x)])
  /\ last' = NoCall
  /\ UNCHANGED <<thr, inp, freshCalls>>

(* the function delays[i] was forced to is applied to arg *)
Apply(i, arg) ==
  /\ hist[i].called
  /\ hist[i].ret.tag = "Lambda"
  /\ LET res == doAp(heap, hist[i].ret, arg)
     IN  /\ heap' = res.h
         /\ last' = [op |-> "apply", d |-> i, arg |-> arg, ret |-> res.r]
  /\ UNCHANGED <<delays, hist, thr, inp, freshCalls>>

(* a variable is evaluated in the environment in force *)
Lookup(name) ==
  /\ last' = [op |-> "lookup", env |-> inp, name |-> name,
              ret |-> lookupEnv(inp, name)]
  /\ UNCHANGED <<heap, delays, hist, thr, inp, freshCalls>>

InitEnv ==
  /\ heap = <<>>
  /\ delays = <<>>
  /\ hist = <<>>
  /\ last = NoCall
  /\ thr = [t \in {1, 2} |-> Idle]
  /\ inp = EmptyEnv
  /\ freshCalls = 0

NextEnv ==
  \/ \E name \in BoundNames, value \in BoundValues : Extend(name, value)
  \/ \E c \in Captured : Capture(c)
  \/ \E i \in DOMAIN delays : Force(i)
  \/ \E i \in DOMAIN delays : Apply(i, VQuote(Nm("a")))
  \/ \E name \in BoundNames : Lookup(name)

SpecEnv == InitEnv /\ [][NextEnv]_vars

(* what the captured expression e is worth, forced or applied to arg,      *)
(* where x denotes seen: written out by hand                               *)
WorthForced(e, seen) ==
  CASE e = CAdd1(CVar(x)) -> VAdd1(seen)
    [] OTHER -> NoValue

WorthApplied(e, seen, arg) ==
  CASE e = CLambda(y, CVar(x)) -> seen
    [] e = CLambda(x, CVar(x)) -> arg

(* C18: extension is non-destructive and lookup is nearest-first: in the   *)
(* extension of E with (name, value) the name denotes value, also when E   *)
(* bound it, every other name denotes what it denotes in E, and E is as it *)
(* was; so a DelayClosure that is forced, and a Closure that is applied,   *)
(* after later extensions is worth what it was worth where it captured E.  *)
C18_EnvironmentsPersist ==
  /\ last.op = "extend" =>
       /\ lookupEnv(last.after, last.name) = last.value
       /\ \A m \in BoundNames \ {last.name} :
            lookupEnv(last.after, m) = Nearest(last.before, m)
       /\ \A m \in BoundNames : lookupEnv(last.before, m) = Nearest(last.before, m)
       /\ Tail(last.after) = last.before
  /\ last.op = "lookup" => last.ret = Nearest(last.env, last.name)
  /\ last.op = "now" /\ hist[last.d].expr.tag # "C.Lambda" =>
       last.ret = WorthForced(hist[last.d].expr, hist[last.d].seen)
  /\ last.op = "apply" =>
       last.ret = WorthApplied(hist[last.d].expr, hist[last.d].seen, last.arg)

(* x was captured as zero and bound again since, to another value; the     *)
(* function made before is applied and still answers zero                  *)
C18_Witness ==
  /\ last.op = "apply"
  /\ hist[last.d].expr = CLambda(y, CVar(x))
  /\ hist[last.d].seen = VZero
  /\ lookupEnv(inp, x) = VAdd1(VZero)
  /\ Len(inp) = 2
  /\ last.ret = VZero

----------------------------------------------------------------------------
(* C21: now() never returns a Delay: whatever the Box was constructed      *)
(* over, a DelayClosure or a Value that may be a Delay itself, and however *)
(* deeply Delays are nested, the value now() returns is no Delay, and      *)
(* after the call the Box of a forced Delay holds a value that is no Delay *)
(* (and no DelayClosure).                                                  *)
C21_NowNeverDelay ==
  /\ last.op \in {"now", "nowValue"} => last.ret.tag # "Delay"
  /\ last.op = "now" =>
       heap[delays[last.d].val].content.tag \notin {"Delay", "DelayClosure"}

----------------------------------------------------------------------------
(* The parser session: Parser.parseElements or                             *)
(* pieDeclarationParser.parseDeclaration is called on inp, an element as   *)
(* the Scheme reader delivers it.                                          *)

MaxElems == 3
MaxBinders == 3

(* the sequences over S of at most len elements *)
SeqsUpTo(S, len) == UNION { [1..m -> S] : m \in 0..len }

AtomElems == { Symbol("f"), Symbol("zero"), Symbol("Nat"), NumericLiteral("1") }

(* words of the parser *)
HeadElems == { Symbol("the"), Symbol("add1"), Symbol("car"), Symbol("lambda") }

(* lists of atoms and words: (f zero), (the Nat 1), (add1), (), ... *)
FlatLists == { List(s) : s \in SeqsUpTo(AtomElems \cup HeadElems, MaxElems) }

(* lists to stand at the head of a list *)
HeadLists ==
  { List(<<Symbol("the"), Arrow1, StepId>>),
    StepId,
    List(<<Symbol("f"), Symbol("zero")>>),
    List(<<List(<<Symbol("f"), Symbol("zero")>>), NumericLiteral("1")>>),
    List(<<Symbol("add1"), Symbol("zero")>>),
    List(<<Symbol("f")>>),
    List(<<>>) }

(* ((the (-> Nat Nat) (lambda (x) x)) zero), ((f zero) 1 Nat), ... *)
NestedLists ==
  { List(<<l>> \o s) : l \in HeadLists, s \in SeqsUpTo(AtomElems, MaxElems - 1) }

(* expressions, each with the Source node it stands for, written by hand *)
Exprs ==
  { [src |-> Symbol("Nat"), parsed |-> makeNat],
    [src |-> Arrow1, parsed |-> makeArrow(makeNat, makeNat, <<>>)],
    [src |-> List(<<Symbol("f"), Symbol("my-var")>>),
     parsed |-> makeApp(makeVarRef("f"), makeVarRef("my-var"), <<>>)] }

BinderWords == { "Pi", "Π", "Sigma", "Σ" }

BinderPairs == [name : {"my-var", "y"}, type : Exprs]

(* (Pi ((x1 A1) ... (xn An)) B) *)
BinderForm(word, pairs, body) ==
  Form(word, << List([i \in DOMAIN pairs |->
                        List(<<Symbol(pairs[i].name), pairs[i].type.src>>)]),
                body.src >>)

BinderPrograms ==
  { [kind |-> "binders", word |-> w, pairs |-> ps, body |-> b,
     src |-> BinderForm(w, ps, b)] :
      w \in BinderWords,
      ps \in SeqsUpTo(BinderPairs, MaxBinders) \ {<<>>},
      b \in { e \in Exprs : e.src.k = "Symbol" } }

ParsePrograms ==
  { [kind |-> "element", src |-> e] :
      e \in AtomElems \cup HeadElems \cup FlatLists \cup NestedLists }
  \cup BinderPrograms

(* (claim name type), (define name expr), (check-same type left right) *)
DeclPrograms ==
  { [kind |-> w, name |-> m, src |-> Form(w, <<Symbol(m), e.src>>),
     expr |-> e] :
      w \in {"claim", "define"}, m \in {"f", "my-var"}, e \in Exprs }
  \cup
  { [kind |-> "check-same", type |-> p[1], left |-> p[2], right |-> p[3],
     src |-> Form("check-same", <<p[1].src, p[2].src, p[3].src>>)] :
      p \in Exprs \X Exprs \X Exprs }
  \cup
  { [kind |-> "element", src |-> e] :
      e \in AtomElems \cup { l \in FlatLists : Len(l.elements) < 3 }
            \cup { List(<<Form(w, <<Symbol("f"), Symbol("Nat")>>)>> \o s) :
                     w \in {"claim", "define", "check-same"},
                     s \in SeqsUpTo({Symbol("zero"), Symbol("Nat")}, 2) } }

(* Parser.parseElements(inp.src) *)
ParseCall ==
  /\ last = NoCall
  /\ inp \in ParsePrograms
  /\ last' = [op |-> "parseElements", prog |-> inp, ret |-> parseElements(inp.src)]
  /\ UNCHANGED <<heap, delays, hist, thr, inp, freshCalls>>

(* pieDeclarationParser.parseDeclaration(inp.src) *)
DeclCall ==
  /\ last = NoCall
  /\ inp \in DeclPrograms
  /\ last' = [op |-> "parseDeclaration", prog |-> inp,
              ret |-> parseDeclaration(inp.src)]
  /\ UNCHANGED <<heap, delays, hist, thr, inp, freshCalls>>

InitParse ==
  /\ heap = <<>>
  /\ delays = <<>>
  /\ hist = <<>>
  /\ last = NoCall
  /\ thr = [t \in {1, 2} |-> Idle]
  /\ inp \in ParsePrograms \cup DeclPrograms
  /\ freshCalls = 0

NextParse ==
  \/ ParseCall
  \/ DeclCall

SpecParse == InitParse /\ [][NextParse]_vars

(* the form's own head is the symbol of a word of the parser *)
KeywordForm(element) ==
  /\ element.k = "List"
  /\ Elem(element, 0).k = "Symbol"
  /\ Elem(element, 0).value \in Keywords

(* the word parseElements compares with its words, when there is one *)
HeadWord(element) == IF getValueThrows(element) THEN "" ELSE getValue(element)

(* every element of the list is parsed by itself *)
AllParse(element) ==
  \A i \in DOMAIN element.elements : ~IsThrow(parseElements(element.elements[i]))

(* C22: parseElements returns an Application node (function, first         *)
(* argument, the other arguments in order) for every list of two or more   *)
(* elements that is no keyword form, also when the first element of the    *)
(* list is a list itself: the words are compared with the list's own head  *)
(* symbol, not with the head of a list at its head.                        *)
C22_ApplicationByOwnHead ==
  /\ last.op = "parseElements"
  /\ last.prog.src.k = "List"
  /\ Len(last.prog.src.elements) >= 2
  /\ ~KeywordForm(last.prog.src)
  /\ AllParse(last.prog.src)
  => last.ret =
       makeApp(parseElements(last.prog.src.elements[1]),
               parseElements(last.prog.src.elements[2]),
               [i \in 1..(Len(last.prog.src.elements) - 2) |->
                  parseElements(last.prog.src.elements[i + 2])])


(* C23: for a Pi or Sigma form with n >= 1 binding pairs, parseElements    *)
(* returns a node with exactly n TypedBinders in the order of the source,  *)
(* the i-th with the name of the i-th pair's variable and the parse of the *)
(* i-th pair's type, and with the parsed body.                             *)
C23_BindersInOrder ==
  last.op = "parseElements" /\ last.prog.kind = "binders" =>
    /\ last.ret.tag = IF last.prog.word \in {"Pi", "Π"} THEN "S.Pi" ELSE "S.Sigma"
    /\ Len(last.ret.binders) = Len(last.prog.pairs)
    /\ \A i \in DOMAIN last.prog.pairs :
         last.ret.binders[i] =
           TypedBinder(last.prog.pairs[i].name, last.prog.pairs[i].type.parsed)
    /\ last.ret.body = last.prog.body.parsed

(* (Σ ((y (-> Nat Nat)) (my-var Nat) (y (f my-var))) Nat) was parsed *)
C23_Witness ==
  /\ last.op = "parseElements" /\ last.prog.kind = "binders"
  /\ last.prog.word = "Σ"
  /\ Len(last.prog.pairs) = 3
  /\ last.ret.tag = "S.Sigma"
  /\ last.ret.binders =
       << TypedBinder("y", makeArrow(makeNat, makeNat, <<>>)),
          TypedBinder("my-var", makeNat),
          TypedBinder("y", makeApp(makeVarRef("f"), makeVarRef("my-var"), <<>>)) >>
  /\ last.ret.body = makeNat


(* the element has none of the shapes parseElements accepts: it is no      *)
(* keyword form (no word of the parser, and no list with one at its head), *)
(* no list of two or more elements, no variable name and no number         *)
NoShape(element) ==
  /\ ~KeywordForm(element)
  /\ ~(element.k = "Symbol" /\ element.value \in Keywords)
  /\ ~(element.k = "List" /\ Len(element.elements) >= 2)
  /\ ~(element.k = "Symbol" /\ isVarName(element.value))
  /\ element.k # "NumericLiteral"

(* C24: parseElements returns a Source node or throws                      *)
(* Error('Unexpected element'): an element that is no keyword form, no     *)
(* list of two or more elements, no variable name and no number is         *)
(* rejected with that error, and when a sub-element fails to parse, the    *)
(* parse of the element around it fails (no partial Source tree).          *)
C24_SourceOrUnexpected ==
  last.op = "parseElements" =>
    /\ IsThrow(last.ret) => last.ret = Throw("Unexpected element")
    /\ NoShape(last.prog.src) => last.ret = Throw("Unexpected element")
    /\ /\ last.prog.src.k = "List"
       /\ Len(last.prog.src.elements) >= 2
       /\ HeadWord(last.prog.src) \notin Keywords \cup {""}
       /\ ~AllParse(last.prog.src)
       => IsThrow(last.ret)

(* C25: parseDeclaration looks at the head symbol of the form only:        *)
(* (claim name type) gives a Claim with the name and the parsed type,      *)
(* (define name expr) a Definition with the name and the parsed            *)
(* expression, (check-same type left right) a SamenessCheck with the three *)
(* parsed parts in this order, and every other form gives what             *)
(* Parser.parseElements returns for it.                                    *)
C25_DeclarationByHead ==
  last.op = "parseDeclaration" =>
    /\ last.prog.kind = "claim" =>
         last.ret = Claim(last.prog.name, last.prog.expr.parsed)
    /\ last.prog.kind = "define" =>
         last.ret = DefinitionOf(last.prog.name, last.prog.expr.parsed)
    /\ last.prog.kind = "check-same" =>
         last.ret = SamenessCheck(last.prog.type.parsed, last.prog.left.parsed,
                                  last.prog.right.parsed)
    /\ last.prog.kind = "element" => last.ret = parseElements(last.prog.src)

====
